---- MODULE Spec2Model ----
(***************************************************************************)
(* Feature / loss orchestration core of TensorFlow/DeepDenoiser.py.        *)
(*                                                                         *)
(* Tensors are symbolic: a tensor is a record [term, channels] whose term  *)
(* is the postfix sequence of the operations that produced it, so that two *)
(* tensors are equal exactly when they were computed the same way from the *)
(* same inputs.  Python exceptions are modelled by the variable `failure`; *)
(* an operation that raises keeps every assignment it made before raising. *)
(*                                                                         *)
(* The specifications share the variables:                                 *)
(*   SpecFeature          one PredictionFeature object, its methods called *)
(*                        in any order;                                    *)
(*   Spec                 model_fn steps over a list of PredictionFeatures *)
(*                        (both architectures);                            *)
(*   SpecLoss             one training feature: initialize(), loss() and   *)
(*                        add_tracked_summaries();                         *)
(*   SpecConfig           main() building the TrainingFeature of one       *)
(*                        configured feature;                              *)
(*   SpecMasked           masked_mean() over concrete pixels;              *)
(*   SpecSampling         one call of source_index_tuples;                 *)
(*   SpecMain             the driver loop of main();                       *)
(*   SpecMainFair         the driver loop, with weak fairness of its step; *)
(*   SpecTraining         main() building the training features of a    *)
(*                        configuration and model_fn computing the loss    *)
(*                        of a step from them;                             *)
(*   SpecStandardization  standardize / invert_standardize on one tensor.  *)
(***************************************************************************)
EXTENDS Integers, Sequences, FiniteSets, TLC

VARIABLES
  prediction_features,   \* params['prediction_features']: the static configuration of each PredictionFeature
  params,                \* use_kernel_predicion, kernel_size, use_single_feature_prediction
  objs,                  \* per PredictionFeature: the attributes set after construction
  dictionary,            \* per PredictionFeature: the `features` dictionary last handed to initialize_sources_from_dictionary
  std_calls,             \* per PredictionFeature: standardize() calls since the last initialize_sources_from_dictionary
  steps,                 \* number of times the sources have been initialized so far
  call,                  \* the last method / function called and its argument
  failure,               \* "none" or the exception the last call raised
  log,                   \* the elementary operations the last call performed, in order
  network_calls,         \* the backbone invocations of the last model() call, in order
  prediction_dictionary, \* the dictionary returned by the last model() call
  training_feature,      \* the BaseTrainingFeature under test (weights, bound tensors)
  loss_result,           \* the value returned by the last loss() call
  attribute_reads,       \* the attributes of the training feature the last loss() call read
  arguments,             \* the inputs of the function or of main() under study
  outcome,               \* what the last call of a function under study returned
  pc,                    \* main(): the position of the driver
  remaining_number_of_epochs,  \* main(): the local of that name
  number_of_training_epochs,   \* main(): the local of that name
  epoch,                 \* main(): iterations of the inner for loop completed in this chunk
  plan,                  \* main(): index_tuples, required_indices, rgb_permutation and the calls that produced them
  passes                 \* main(): the train() and evaluate() calls made so far, in order

vars == <<prediction_features, params, objs, dictionary, std_calls, steps, call, failure, log,
          network_calls, prediction_dictionary, training_feature, loss_result, attribute_reads,
          arguments, outcome, pc, remaining_number_of_epochs, number_of_training_epochs, epoch,
          plan, passes>>

lossVars == <<training_feature, loss_result, attribute_reads>>
modelVars == <<network_calls, prediction_dictionary>>
mainVars == <<pc, remaining_number_of_epochs, number_of_training_epochs, epoch, plan, passes>>
driverVars == <<arguments, outcome, mainVars>>
featureVars == <<prediction_features, params, objs, dictionary, std_calls, steps>>

\* The value of a name that is not bound (Python's None).
None == [none |-> TRUE]

\* main() not started, no function under study called.
InitMain ==
  /\ pc = "idle"
  /\ remaining_number_of_epochs = 0
  /\ number_of_training_epochs = 0
  /\ epoch = 0
  /\ plan = None
  /\ passes = <<>>

InitDriver ==
  /\ arguments = None
  /\ outcome = None
  /\ InitMain

----------------------------------------------------------------------------
(* Bounds *)

MaxSources == 2        \* number_of_sources_per_target ranges over 1..MaxSources
MaxFeatures == 3       \* a configuration declares 1..MaxFeatures source features
MaxStandardize == 3    \* standardize() calls allowed between two initializations
MaxSteps == 2          \* initializations of the sources (training / evaluation steps) in a run

\* Feature names in the sorted order main() builds prediction_features in.
FeatureNames == <<"A", "B", "C", "D", "E">>

\* The `features` dictionaries a step can be fed with.
Dictionaries == {"batch1", "batch2"}

KernelSizes == {3}

NumberOfChannels(name) ==
  CASE name = "A" -> 3
    [] name = "B" -> 1
    [] name = "C" -> 2
    [] name = "D" -> 4
    [] OTHER -> 1

----------------------------------------------------------------------------
(* Symbolic tensors *)

Tensor(term, channels) == [term |-> term, channels |-> channels]

\* dictionary[RenderPasses.source_feature_name_indexed(name, index)]
SourceTensor(dict, name, index, channels) ==
  Tensor(<<dict, "source", name, ToString(index)>>, channels)

Inverse(op) ==
  CASE op = "signed_log1p" -> "signed_expm1"
    [] op = "signed_expm1" -> "signed_log1p"
    [] op = "subtract_mean" -> "add_mean"
    [] op = "add_mean" -> "subtract_mean"
    [] op = "divide_sqrt_variance" -> "multiply_sqrt_variance"
    [] op = "multiply_sqrt_variance" -> "divide_sqrt_variance"
    [] OTHER -> "none"

\* Apply an elementwise operation; an operation directly after its inverse cancels.
Apply(op, t) ==
  IF Len(t.term) > 0 /\ t.term[Len(t.term)] = Inverse(op)
    THEN [t EXCEPT !.term = SubSeq(t.term, 1, Len(t.term) - 1)]
    ELSE [t EXCEPT !.term = Append(t.term, op)]

----------------------------------------------------------------------------
(* FeatureStandardization *)

NoStandardization == [present |-> FALSE, use_log1p |-> FALSE, mean |-> 0, variance |-> 1]

FeatureStandardization(use_log1p, mean, variance) ==
  [present |-> TRUE, use_log1p |-> use_log1p, mean |-> mean, variance |-> variance]

use_mean(fs) == fs.mean # 0

use_variance(fs) == fs.variance # 1

standardize(fs, feature) ==
  LET f1 == IF fs.use_log1p THEN Apply("signed_log1p", feature) ELSE feature
      f2 == IF use_mean(fs) THEN Apply("subtract_mean", f1) ELSE f1
      f3 == IF use_variance(fs) THEN Apply("divide_sqrt_variance", f2) ELSE f2
  IN f3

\* An inversion that undoes the steps in the order standardize applied them.
invert_standardize_same_order(fs, feature) ==
  LET f1 == IF fs.use_log1p THEN Apply("signed_expm1", feature) ELSE feature
      f2 == IF use_mean(fs) THEN Apply("add_mean", f1) ELSE f1
      f3 == IF use_variance(fs) THEN Apply("multiply_sqrt_variance", f2) ELSE f2
  IN f3

invert_standardize(fs, feature) ==
  LET f1 == IF use_variance(fs) THEN Apply("multiply_sqrt_variance", feature) ELSE feature
      f2 == IF use_mean(fs) THEN Apply("add_mean", f1) ELSE f1
      f3 == IF fs.use_log1p THEN Apply("signed_expm1", f2) ELSE f2
  IN f3

----------------------------------------------------------------------------
(* FeatureVariance *)

\* FeatureVariance.variance: one variance tensor per input, one channel if compressed.
variance(pf, inputs) ==
  Tensor(Append(inputs.term, "variance"),
         IF pf.compress_to_one_channel THEN 1 ELSE inputs.channels)

----------------------------------------------------------------------------
(* PredictionFeature *)

PredictionFeature(number_of_sources, preserve_source, is_target, feature_standardization, use_var, compute_before_standardization, compress_to_one_channel, name) ==
  [number_of_sources |-> number_of_sources,
   preserve_source |-> preserve_source,
   is_target |-> is_target,
   feature_standardization |-> feature_standardization,
   use_variance |-> use_var,
   compute_before_standardization |-> compute_before_standardization,
   compress_to_one_channel |-> compress_to_one_channel,
   number_of_channels |-> NumberOfChannels(name),
   name |-> name]

\* The attributes of a PredictionFeature right after __init__: none of source,
\* variance, preserved_source, prediction exists yet (an optional attribute is
\* a sequence of length 0 or 1).
NewObject == [loaded |-> FALSE, source |-> <<>>, variance |-> <<>>,
              preserved_source |-> <<>>, prediction |-> <<>>]

Event(op, name, index, tensor) == [op |-> op, feature |-> name, index |-> index, tensor |-> tensor]

Context(obj) == [obj |-> obj, failure |-> "none", log |-> <<>>]

Raise(ctx, exception) == [ctx EXCEPT !.failure = exception]

\* initialize_sources_from_dictionary that keeps the old variance list.
initialize_sources_keeping_variance(pf, obj, dict) ==
  [obj EXCEPT !.loaded = TRUE,
              !.source = [index \in 1..pf.number_of_sources |->
                            SourceTensor(dict, pf.name, index - 1, pf.number_of_channels)]]

initialize_sources_from_dictionary(pf, obj, dict) ==
  [obj EXCEPT !.loaded = TRUE,
              !.source = [index \in 1..pf.number_of_sources |->
                            SourceTensor(dict, pf.name, index - 1, pf.number_of_channels)],
              !.variance = <<>>]

\* The two variance loops of standardize(): for index in range(number_of_sources):
\* assert len(self.variance) == index; self.variance.append(variance(source[index])).
AppendVariance(pf, ctx, index, op, v) ==
  [ctx EXCEPT !.obj.variance = Append(@, v), !.log = Append(@, Event(op, pf.name, index, v))]

RECURSIVE VarianceLoop(_, _, _, _)
VarianceLoop(pf, ctx, index, op) ==
  IF index >= pf.number_of_sources THEN ctx
  ELSE IF ~ctx.obj.loaded THEN Raise(ctx, "AttributeError")
  ELSE IF Len(ctx.obj.variance) # index THEN Raise(ctx, "AssertionError")
  ELSE VarianceLoop(pf, AppendVariance(pf, ctx, index, op, variance(pf, ctx.obj.source[index + 1])),
                    index + 1, op)

ReplaceSource(pf, ctx, index, s) ==
  [ctx EXCEPT !.obj.source[index + 1] = s, !.log = Append(@, Event("standardize", pf.name, index, s))]

RECURSIVE StandardizeLoop(_, _, _)
StandardizeLoop(pf, ctx, index) ==
  IF index >= pf.number_of_sources THEN ctx
  ELSE IF ~ctx.obj.loaded THEN Raise(ctx, "AttributeError")
  ELSE StandardizeLoop(pf,
         ReplaceSource(pf, ctx, index,
                       standardize(pf.feature_standardization, ctx.obj.source[index + 1])),
         index + 1)

\* Step (1): variance over the raw sources.
VarianceBeforeStep(pf, ctx) ==
  IF ctx.failure = "none" /\ pf.use_variance /\ pf.compute_before_standardization
    THEN VarianceLoop(pf, ctx, 0, "variance_before") ELSE ctx

\* Step (2): self.preserved_source = self.source[0].
PreserveSource(pf, ctx) ==
  IF ctx.failure # "none" \/ ~pf.preserve_source THEN ctx
  ELSE IF ~ctx.obj.loaded THEN Raise(ctx, "AttributeError")
  ELSE [ctx EXCEPT !.obj.preserved_source = <<ctx.obj.source[1]>>,
                   !.log = Append(@, Event("preserve_source", pf.name, 0, ctx.obj.source[1]))]

\* Step (3): standardize every source, if a standardization is configured.
StandardizeStep(pf, ctx) ==
  IF ctx.failure = "none" /\ pf.feature_standardization.present
    THEN StandardizeLoop(pf, ctx, 0) ELSE ctx

\* Step (4): variance over the standardized sources.
VarianceAfterStep(pf, ctx) ==
  IF ctx.failure = "none" /\ pf.use_variance /\ ~pf.compute_before_standardization
    THEN VarianceLoop(pf, ctx, 0, "variance_after") ELSE ctx

\* standardize() that snapshots source 0 only after the sources were standardized.
PredictionFeature_standardize_late_snapshot(pf, ctx0) ==
  VarianceAfterStep(pf, PreserveSource(pf, StandardizeStep(pf, VarianceBeforeStep(pf, ctx0))))

\* standardize() that clears the variance list itself before computing variances.
PredictionFeature_standardize_clearing(pf, ctx0) ==
  VarianceAfterStep(pf, StandardizeStep(pf, PreserveSource(pf,
    VarianceBeforeStep(pf, IF pf.use_variance /\ ctx0.obj.loaded
                             THEN [ctx0 EXCEPT !.obj.variance = <<>>] ELSE ctx0))))

\* PredictionFeature.standardize, from a context (object, failure, log).
PredictionFeature_standardize(pf, ctx0) ==
  VarianceAfterStep(pf, StandardizeStep(pf, PreserveSource(pf, VarianceBeforeStep(pf, ctx0))))

SetPrediction(pf, ctx, op, p) ==
  [ctx EXCEPT !.obj.prediction = <<p>>, !.log = Append(@, Event(op, pf.name, 0, p))]

prediction_invert_standardize(pf, ctx) ==
  IF pf.feature_standardization.present
    THEN IF ctx.obj.prediction = <<>> THEN Raise(ctx, "AttributeError")
         ELSE SetPrediction(pf, ctx, "invert_standardize",
                            invert_standardize(pf.feature_standardization, ctx.obj.prediction[1]))
    ELSE ctx

\* add_prediction without the is_target check.
add_prediction_unchecked(pf, ctx, prediction) ==
  SetPrediction(pf, ctx, "add_prediction", prediction)

add_prediction(pf, ctx, prediction) ==
  IF ~pf.is_target THEN Raise(ctx, "Exception")
  ELSE SetPrediction(pf, ctx, "add_prediction", prediction)

\* add_prediction_to_dictionary that starts a new dictionary for every feature.
add_prediction_to_dictionary_replacing(pf, obj, dict) ==
  IF pf.is_target THEN [k \in {pf.name} |-> obj.prediction[1]] ELSE dict

\* The dictionary is a function from prediction feature names to tensors.
add_prediction_to_dictionary(pf, obj, dict) ==
  IF pf.is_target
    THEN [k \in DOMAIN dict \cup {pf.name} |-> IF k = pf.name THEN obj.prediction[1] ELSE dict[k]]
    ELSE dict

----------------------------------------------------------------------------
(* Model assembly.  A tensor concatenated along the channel axis is the     *)
(* sequence of its blocks; the context of a model() call holds the objects *)
(* of all features, the failure, the log and the backbone invocations.     *)

ModelContext(os) == [objs |-> os, failure |-> "none", log |-> <<>>, network_calls |-> <<>>]

FeatureContext(mc, i) == [obj |-> mc.objs[i], failure |-> mc.failure, log |-> mc.log]

\* Store the outcome of a method of feature i back into the model context.
WithFeature(mc, i, ctx) ==
  [mc EXCEPT !.objs[i] = ctx.obj, !.failure = ctx.failure, !.log = ctx.log]

RECURSIVE Flatten(_)
Flatten(tensors) ==
  IF tensors = <<>> THEN <<>> ELSE tensors[1].term \o Flatten(Tail(tensors))

RECURSIVE Sum(_)
Sum(numbers) == IF numbers = <<>> THEN 0 ELSE numbers[1] + Sum(Tail(numbers))

\* source[index] followed by variance[index] if variance is used, for index in first..last-1.
RECURSIVE SourceInputs(_, _, _, _)
SourceInputs(pf, obj, first, last) ==
  IF first >= last THEN <<>>
  ELSE <<obj.source[first + 1]>>
       \o (IF pf.use_variance THEN <<obj.variance[first + 1]>> ELSE <<>>)
       \o SourceInputs(pf, obj, first + 1, last)

\* prediction_inputs: source 0 (and its variance) of every target feature.
RECURSIVE PredictionInputs(_, _, _)
PredictionInputs(pfs, os, i) ==
  IF i > Len(pfs) THEN <<>>
  ELSE (IF pfs[i].is_target THEN SourceInputs(pfs[i], os[i], 0, 1) ELSE <<>>)
       \o PredictionInputs(pfs, os, i + 1)

\* auxiliary_prediction_inputs: the sources with index >= 1 of every target feature.
RECURSIVE AuxiliaryPredictionInputs(_, _, _)
AuxiliaryPredictionInputs(pfs, os, i) ==
  IF i > Len(pfs) THEN <<>>
  ELSE (IF pfs[i].is_target
          THEN SourceInputs(pfs[i], os[i], 1, pfs[i].number_of_sources) ELSE <<>>)
       \o AuxiliaryPredictionInputs(pfs, os, i + 1)

\* auxiliary_inputs: every source of every feature that is not a target.
RECURSIVE AuxiliaryInputs(_, _, _)
AuxiliaryInputs(pfs, os, i) ==
  IF i > Len(pfs) THEN <<>>
  ELSE (IF ~pfs[i].is_target
          THEN SourceInputs(pfs[i], os[i], 0, pfs[i].number_of_sources) ELSE <<>>)
       \o AuxiliaryInputs(pfs, os, i + 1)

\* output_prediction_features of model(): the positions of the target features, in order.
RECURSIVE OutputPredictionFeatures(_, _)
OutputPredictionFeatures(pfs, i) ==
  IF i > Len(pfs) THEN <<>>
  ELSE (IF pfs[i].is_target THEN <<i>> ELSE <<>>) \o OutputPredictionFeatures(pfs, i + 1)

\* Channels the backbone has to produce for one target feature, always the channel count.
OutputChannels_ignoring_kernel(pf, ps) == pf.number_of_channels

\* Channels the backbone has to produce for one target feature.
OutputChannels(pf, ps) ==
  IF ps.use_kernel_predicion THEN ps.kernel_size * ps.kernel_size ELSE pf.number_of_channels

size_splits(pfs, ps, outputs) == [k \in 1..Len(outputs) |-> OutputChannels(pfs[outputs[k]], ps)]

\* neural_network_model under a variable scope: the result depends on the
\* input blocks, the weights of the scope and the requested width.
neural_network_model(inputs, output_size, scope) ==
  Tensor(Flatten(inputs) \o <<"unet", scope>>, output_size)

NetworkCall(scope, reuse, inputs, output_size) ==
  [scope |-> scope, reuse |-> reuse, inputs |-> inputs, output_size |-> output_size,
   output |-> neural_network_model(inputs, output_size, scope)]

\* Slice `index` of tf.split(outputs, size_splits, channel axis).
Split(outputs, sizes, index) ==
  Tensor(outputs.term \o <<"split", ToString(index)>>, sizes[index + 1])

\* KernelPrediction.kernel_prediction(source, weights, kernel_size)
kernel_prediction(source, weights, kernel_size) ==
  Tensor(source.term \o weights.term \o <<"kernel_prediction", ToString(kernel_size)>>,
         source.channels)

LogEvent(ctx, op, name) ==
  [ctx EXCEPT !.log = Append(@, Event(op, name, 0, ctx.obj.prediction[1]))]

\* A call of prediction_feature.prediction_invert_standardize() on feature i.
CallInvert(pfs, mc, i) ==
  WithFeature(mc, i,
    LogEvent(prediction_invert_standardize(pfs[i], FeatureContext(mc, i)),
             "prediction_invert_standardize", pfs[i].name))

\* Post-processing that inverts the standardization whatever use_kernel_predicion says.
InvertStep_always(pfs, ps, mc, i) == CallInvert(pfs, mc, i)

\* `if invert_standardize: prediction_feature.prediction_invert_standardize()` for feature i.
InvertStep(pfs, ps, mc, i) ==
  IF mc.failure # "none" \/ ps.use_kernel_predicion THEN mc ELSE CallInvert(pfs, mc, i)

\* prediction = kernel_prediction(...); prediction_feature.add_prediction(prediction)
AddKernelPrediction(pfs, mc, i, prediction) ==
  WithFeature(mc, i,
    add_prediction(pfs[i],
      [obj |-> mc.objs[i], failure |-> mc.failure,
       log |-> Append(mc.log, Event("kernel_prediction", pfs[i].name, 0, prediction))],
      prediction))

\* The kernel step without the assertion on preserve_source.
KernelStep_unasserted(pfs, ps, mc, i) ==
  IF mc.failure # "none" \/ ~ps.use_kernel_predicion THEN mc
  ELSE IF mc.objs[i].preserved_source = <<>> THEN [mc EXCEPT !.failure = "AttributeError"]
  ELSE AddKernelPrediction(pfs, mc, i,
         kernel_prediction(mc.objs[i].preserved_source[1], mc.objs[i].prediction[1], ps.kernel_size))

\* `if use_kernel_predicion: assert preserve_source; prediction = kernel_prediction(
\* preserved_source, prediction, kernel_size); add_prediction(prediction)` for feature i.
KernelStep(pfs, ps, mc, i) ==
  IF mc.failure # "none" \/ ~ps.use_kernel_predicion THEN mc
  ELSE IF ~pfs[i].preserve_source THEN [mc EXCEPT !.failure = "AssertionError"]
  ELSE AddKernelPrediction(pfs, mc, i,
         kernel_prediction(mc.objs[i].preserved_source[1], mc.objs[i].prediction[1], ps.kernel_size))

\* for index, prediction in enumerate(prediction_tuple): output[index].add_prediction(prediction)
RECURSIVE AddSplitPredictions(_, _, _, _, _, _)
AddSplitPredictions(pfs, mc, outputs, network_output, sizes, k) ==
  IF k > Len(outputs) \/ mc.failure # "none" THEN mc
  ELSE AddSplitPredictions(pfs,
         WithFeature(mc, outputs[k],
           add_prediction(pfs[outputs[k]], FeatureContext(mc, outputs[k]),
                          Split(network_output, sizes, k - 1))),
         outputs, network_output, sizes, k + 1)

RECURSIVE InvertLoop(_, _, _, _, _)
InvertLoop(pfs, ps, mc, outputs, k) ==
  IF k > Len(outputs) THEN mc
  ELSE InvertLoop(pfs, ps, InvertStep(pfs, ps, mc, outputs[k]), outputs, k + 1)

RECURSIVE KernelLoop(_, _, _, _, _)
KernelLoop(pfs, ps, mc, outputs, k) ==
  IF k > Len(outputs) THEN mc
  ELSE KernelLoop(pfs, ps, KernelStep(pfs, ps, mc, outputs[k]), outputs, k + 1)

\* The part of combined_features_model after the backbone invocation.
CombinedPostProcessing(pfs, ps, mc, outputs, network) ==
  KernelLoop(pfs, ps,
    InvertLoop(pfs, ps,
      AddSplitPredictions(pfs, [mc EXCEPT !.network_calls = Append(@, network)], outputs,
                          network.output, size_splits(pfs, ps, outputs), 1),
      outputs, 1),
    outputs, 1)

\* The concatenation with the plain auxiliary inputs ahead of the targets' later sources.
CombinedNetwork_auxiliary_first(pfs, ps, mc, outputs, prediction_inputs) ==
  IF prediction_inputs = <<>>
    THEN [mc EXCEPT !.failure = "ValueError"]
    ELSE CombinedPostProcessing(pfs, ps, mc, outputs,
           NetworkCall("model", FALSE,
                       prediction_inputs \o AuxiliaryInputs(pfs, mc.objs, 1)
                                         \o AuxiliaryPredictionInputs(pfs, mc.objs, 1),
                       Sum([k \in 1..Len(outputs) |-> OutputChannels(pfs[outputs[k]], ps)])))

\* The part of combined_features_model from the concatenation of the inputs on.
CombinedNetwork(pfs, ps, mc, outputs, prediction_inputs) ==
  IF prediction_inputs = <<>>
    THEN [mc EXCEPT !.failure = "ValueError"]     \* tf.concat of an empty list
    ELSE CombinedPostProcessing(pfs, ps, mc, outputs,
           NetworkCall("model", FALSE,
                       prediction_inputs \o AuxiliaryPredictionInputs(pfs, mc.objs, 1)
                                         \o AuxiliaryInputs(pfs, mc.objs, 1),
                       Sum([k \in 1..Len(outputs) |-> OutputChannels(pfs[outputs[k]], ps)])))

\* combined_features_model: one backbone invocation over all inputs.
combined_features_model(pfs, ps, mc, outputs) ==
  CombinedNetwork(pfs, ps, mc, outputs, PredictionInputs(pfs, mc.objs, 1))

\* `reuse` after the pass over a feature, if it were never switched on.
ReuseAfter_never(pf, reuse) == reuse

\* `reuse` after the pass over a feature: True once a target feature went through the backbone.
ReuseAfter(pf, reuse) == IF pf.is_target THEN TRUE ELSE reuse

\* The part of the loop body of single_feature_model after the backbone invocation.
SinglePostProcessing(pfs, ps, mc, i, network) ==
  KernelStep(pfs, ps,
    InvertStep(pfs, ps,
      WithFeature(mc, i,
        add_prediction(pfs[i],
          [obj |-> mc.objs[i], failure |-> mc.failure, log |-> mc.log], network.output)),
      i),
    i)

\* feature_flags.feature_flags(name, height, width, data_format): the per-pixel
\* flag signal of one render pass.
feature_flags(name) == Tensor(<<"feature_flags", name>>, 1)

\* prediction_feature_flags = feature_flags.feature_flags(prediction_feature.name, ...)
FeatureFlagsStep(pfs, mc, i) ==
  [mc EXCEPT !.log = Append(@, Event("feature_flags", pfs[i].name, 0, feature_flags(pfs[i].name)))]

\* The network input of a target feature that also takes in the sources of the other targets.
SingleFeatureInputs_all_targets(pfs, mc, auxiliary_inputs, i) ==
  SourceInputs(pfs[i], mc.objs[i], 0, 1)
  \o AuxiliaryPredictionInputs(pfs, mc.objs, 1)
  \o auxiliary_inputs

\* `outputs` of single_feature_model before the backbone: prediction_inputs, then
\* auxiliary_prediction_inputs, then auxiliary_inputs, the empty ones left out.
SingleFeatureInputs(pfs, mc, auxiliary_inputs, i) ==
  SourceInputs(pfs[i], mc.objs[i], 0, 1)
  \o SourceInputs(pfs[i], mc.objs[i], 1, pfs[i].number_of_sources)
  \o auxiliary_inputs

\* The backbone invocation for feature i and what follows it.
SingleFeatureNetwork(pfs, ps, mc, i, network) ==
  SinglePostProcessing(pfs, ps, [mc EXCEPT !.network_calls = Append(@, network)], i, network)

\* Body of the loop of single_feature_model for feature i.
SingleFeaturePass(pfs, ps, mc, auxiliary_inputs, i, reuse) ==
  IF ~pfs[i].is_target THEN mc
  ELSE SingleFeatureNetwork(pfs, ps, FeatureFlagsStep(pfs, mc, i), i,
         NetworkCall("reused_model", reuse,
                     SingleFeatureInputs(pfs, mc, auxiliary_inputs, i),
                     OutputChannels(pfs[i], ps)))

RECURSIVE SingleFeatureLoop(_, _, _, _, _, _)
SingleFeatureLoop(pfs, ps, mc, auxiliary_inputs, i, reuse) ==
  IF i > Len(pfs) \/ mc.failure # "none" THEN mc
  ELSE SingleFeatureLoop(pfs, ps, SingleFeaturePass(pfs, ps, mc, auxiliary_inputs, i, reuse),
                         auxiliary_inputs, i + 1, ReuseAfter(pfs[i], reuse))

\* single_feature_model: one backbone invocation per target feature.
single_feature_model(pfs, ps, mc) ==
  SingleFeatureLoop(pfs, ps, mc, AuxiliaryInputs(pfs, mc.objs, 1), 1, FALSE)

RECURSIVE StandardizeAll(_, _, _)
StandardizeAll(pfs, mc, i) ==
  IF i > Len(pfs) \/ mc.failure # "none" THEN mc
  ELSE StandardizeAll(pfs,
         WithFeature(mc, i, PredictionFeature_standardize(pfs[i], FeatureContext(mc, i))),
         i + 1)

RECURSIVE PredictionDictionary(_, _, _, _)
PredictionDictionary(pfs, os, outputs, k) ==
  IF k = 0 THEN [name \in {} |-> Tensor(<<>>, 0)]
  ELSE add_prediction_to_dictionary(pfs[outputs[k]], os[outputs[k]],
                                    PredictionDictionary(pfs, os, outputs, k - 1))

\* The architecture model() dispatches to.
Architecture(pfs, ps, standardized, outputs) ==
  IF standardized.failure # "none" THEN standardized
  ELSE IF ps.use_single_feature_prediction
    THEN single_feature_model(pfs, ps, standardized)
    ELSE combined_features_model(pfs, ps, standardized, outputs)

\* What model() leaves behind and, when nothing failed, the dictionary it returns.
ModelResult(pfs, mc, outputs) ==
  [context |-> mc,
   returned |-> mc.failure = "none",
   predictions |-> IF mc.failure = "none"
                     THEN PredictionDictionary(pfs, mc.objs, outputs, Len(outputs))
                     ELSE [name \in {} |-> Tensor(<<>>, 0)]]

ModelOutputs(pfs, ps, os, outputs) ==
  ModelResult(pfs, Architecture(pfs, ps, StandardizeAll(pfs, ModelContext(os), 1), outputs), outputs)

\* model(): standardize every feature, run the architecture, collect the predictions.
model(pfs, ps, os) == ModelOutputs(pfs, ps, os, OutputPredictionFeatures(pfs, 1))

\* The first part of model_fn: initialize every feature from `features`, then model().
model_fn(pfs, ps, os, features) ==
  model(pfs, ps, [i \in 1..Len(pfs) |-> initialize_sources_from_dictionary(pfs[i], os[i], features)])

----------------------------------------------------------------------------
(* BaseTrainingFeature: loss() over the six weighted terms *)

\* The terms in the order loss() visits them.
LossTerms == <<"mean", "variation", "ms_ssim", "masked_mean", "masked_variation", "masked_ms_ssim">>

IsMaskedTerm(term) == term \in {"masked_mean", "masked_variation", "masked_ms_ssim"}

\* A training feature after __init__: the six weights and the terms whose
\* track_ flag is set; predicted, target, mask and mask_sum are bound by
\* initialize() only.
TrainingFeature(name, weights, tracked, has_mask) ==
  [name |-> name, weights |-> weights, tracked |-> tracked, has_mask |-> has_mask,
   bound |-> FALSE, masked |-> FALSE, data |-> "", mask_sum |-> 0]

\* An initialize that binds mask and mask_sum whatever the name of the feature.
TrainingFeature_initialize_always_masked(tf, data, mask_sum) ==
  [tf EXCEPT !.bound = TRUE, !.data = data, !.masked = TRUE, !.mask_sum = mask_sum]

\* TrainingFeature.initialize: bind predicted and target of this step; mask and
\* mask_sum only for a direct or indirect render pass.
TrainingFeature_initialize(tf, data, mask_sum) ==
  [tf EXCEPT !.bound = TRUE, !.data = data,
             !.masked = tf.has_mask,
             !.mask_sum = IF tf.has_mask THEN mask_sum ELSE tf.mask_sum]

\* The value of an unmasked or masked statistic of the bound predicted / target pair.
TermValue(term, data) ==
  (CASE term = "mean" -> 1
     [] term = "variation" -> 2
     [] term = "ms_ssim" -> 3
     [] term = "masked_mean" -> 4
     [] term = "masked_variation" -> 5
     [] OTHER -> 0)
  + (IF data = "batch2" THEN 10 ELSE 0)

\* The evaluation of a term in which masked_ms_ssim() returns the constant 0.
EvaluateTerm_silent(tf, term) ==
  IF IsMaskedTerm(term)
    THEN IF ~tf.masked /\ term # "masked_ms_ssim"
           THEN [failure |-> "AttributeError", value |-> 0, reads |-> {}]
           ELSE [failure |-> "none",
                 value |-> IF tf.mask_sum > 0 THEN TermValue(term, tf.data) ELSE 0,
                 reads |-> IF term = "masked_ms_ssim" THEN {}
                           ELSE {"mask_sum", "mask", "predicted", "target"}]
  ELSE IF ~tf.bound
    THEN [failure |-> "AttributeError", value |-> 0, reads |-> {}]
    ELSE [failure |-> "none", value |-> TermValue(term, tf.data), reads |-> {"predicted", "target"}]

\* Evaluate one term method on the feature: the failure it raises, the value
\* it returns, and the attributes it reads.
EvaluateTerm(tf, term) ==
  IF term = "masked_ms_ssim"
    THEN [failure |-> "Exception", value |-> 0, reads |-> {}]
  ELSE IF IsMaskedTerm(term)
    THEN IF ~tf.masked
           THEN [failure |-> "AttributeError", value |-> 0, reads |-> {}]
           ELSE [failure |-> "none",
                 value |-> IF tf.mask_sum > 0 THEN TermValue(term, tf.data) ELSE 0,
                 reads |-> {"mask_sum", "mask", "predicted", "target"}]
  ELSE IF ~tf.bound
    THEN [failure |-> "AttributeError", value |-> 0, reads |-> {}]
    ELSE [failure |-> "none", value |-> TermValue(term, tf.data), reads |-> {"predicted", "target"}]

\* A guard that lets every non-zero weight through.
TermEnabled_nonzero(weight) == weight # 0

\* `if self.<term>_weight > 0.0:`
TermEnabled(weight) == weight > 0

LossContext == [result |-> 0, failure |-> "none", log |-> <<>>, reads |-> {}]

\* loss(): result = 0.0, then for each term in order, if its weight is
\* positive, result = result + weight * term().
RECURSIVE LossLoop(_, _, _)
LossLoop(tf, lc, k) ==
  IF k > Len(LossTerms) \/ lc.failure # "none" THEN lc
  ELSE IF ~TermEnabled(tf.weights[LossTerms[k]]) THEN LossLoop(tf, lc, k + 1)
  ELSE LET term == EvaluateTerm(tf, LossTerms[k])
       IN LossLoop(tf,
            [result |-> IF term.failure = "none"
                          THEN lc.result + tf.weights[LossTerms[k]] * term.value
                          ELSE lc.result,
             failure |-> term.failure,
             log |-> Append(lc.log, Event(LossTerms[k], tf.name, 0, Tensor(<<>>, 0))),
             reads |-> lc.reads \cup term.reads],
            k + 1)

BaseTrainingFeature_loss(tf) == LossLoop(tf, LossContext, 1)

\* tf.summary.scalar(<name of the term>, <term>()): the term is evaluated
\* first; the summary is emitted only if it returned.
EmitSummary(tf, sc, name, term) ==
  [summaries |-> IF term.failure = "none"
                   THEN Append(sc.summaries, [feature |-> tf.name, term |-> name, value |-> term.value])
                   ELSE sc.summaries,
   failure |-> term.failure,
   log |-> Append(sc.log, Event(name, tf.name, 0, Tensor(<<>>, 0)))]

\* add_tracked_summaries(): for each term in order, if its track_ flag is set,
\* emit a scalar summary of the term.
RECURSIVE SummaryLoop(_, _, _)
SummaryLoop(tf, sc, k) ==
  IF k > Len(LossTerms) \/ sc.failure # "none" THEN sc
  ELSE IF LossTerms[k] \notin tf.tracked THEN SummaryLoop(tf, sc, k + 1)
  ELSE SummaryLoop(tf, EmitSummary(tf, sc, LossTerms[k], EvaluateTerm(tf, LossTerms[k])), k + 1)

BaseTrainingFeature_add_tracked_summaries(tf) ==
  SummaryLoop(tf, [summaries |-> <<>>, failure |-> "none", log |-> <<>>], 1)

----------------------------------------------------------------------------
(* Configurations *)

StandardizationConfigs ==
  {NoStandardization} \cup
  {FeatureStandardization(l, m, v) : l \in BOOLEAN, m \in {0, 2}, v \in {1, 4}}

\* Every PredictionFeature the constructor accepts, for one name.
FeatureConfigs(name) ==
  {PredictionFeature(n, p, t, fs, uv, cb, co, name) :
     n \in 1..MaxSources, p \in BOOLEAN, t \in BOOLEAN, fs \in StandardizationConfigs,
     uv \in BOOLEAN, cb \in BOOLEAN, co \in {name = "C"}}

NoTensor == Tensor(<<>>, 0)

Call(op, name, arg) == [op |-> op, feature |-> name, arg |-> arg]

NoParams == [use_kernel_predicion |-> FALSE, kernel_size |-> 0, use_single_feature_prediction |-> FALSE]

NoTrainingFeature == [bound |-> FALSE]

EmptyDictionary == [k \in {} |-> NoTensor]

\* The tensors a caller hands to add_prediction.
Predictions(pf) == {Tensor(<<p>>, pf.number_of_channels) : p \in {"prediction1", "prediction2"}}

----------------------------------------------------------------------------
(* SpecFeature: the methods of one PredictionFeature, called in any order *)

InitFeature ==
  /\ prediction_features \in {<<pf>> : pf \in FeatureConfigs("A")}
  /\ params = NoParams
  /\ objs = <<NewObject>>
  /\ dictionary = <<"">>
  /\ std_calls = <<0>>
  /\ steps = 0
  /\ call = Call("__init__", "A", NoTensor)
  /\ failure = "none"
  /\ log = <<>>
  /\ network_calls = <<>>
  /\ prediction_dictionary = EmptyDictionary
  /\ training_feature = NoTrainingFeature
  /\ loss_result = 0
  /\ attribute_reads = {}
  /\ InitDriver

InitializeSources(i, dict) ==
  /\ steps < MaxSteps
  /\ objs' = [objs EXCEPT ![i] = initialize_sources_from_dictionary(prediction_features[i], objs[i], dict)]
  /\ dictionary' = [dictionary EXCEPT ![i] = dict]
  /\ std_calls' = [std_calls EXCEPT ![i] = 0]
  /\ steps' = steps + 1
  /\ call' = Call("initialize_sources_from_dictionary", prediction_features[i].name, NoTensor)
  /\ failure' = "none"
  /\ log' = <<>>
  /\ UNCHANGED <<prediction_features, params, modelVars, lossVars>>
  /\ UNCHANGED driverVars

Standardize(i) ==
  /\ std_calls[i] < MaxStandardize
  /\ \E ctx \in {PredictionFeature_standardize(prediction_features[i], Context(objs[i]))} :
        /\ objs' = [objs EXCEPT ![i] = ctx.obj]
        /\ failure' = ctx.failure
        /\ log' = ctx.log
  /\ std_calls' = [std_calls EXCEPT ![i] = @ + 1]
  /\ call' = Call("standardize", prediction_features[i].name, NoTensor)
  /\ UNCHANGED <<prediction_features, params, dictionary, steps, modelVars, lossVars>>
  /\ UNCHANGED driverVars

AddPrediction(i, prediction) ==
  /\ \E ctx \in {add_prediction(prediction_features[i], Context(objs[i]), prediction)} :
        /\ objs' = [objs EXCEPT ![i] = ctx.obj]
        /\ failure' = ctx.failure
        /\ log' = ctx.log
  /\ call' = Call("add_prediction", prediction_features[i].name, prediction)
  /\ UNCHANGED <<prediction_features, params, dictionary, std_calls, steps, modelVars, lossVars>>
  /\ UNCHANGED driverVars

AddPredictionToDictionary(i) ==
  /\ IF prediction_features[i].is_target /\ objs[i].prediction = <<>>
       THEN /\ failure' = "AttributeError"
            /\ UNCHANGED prediction_dictionary
       ELSE /\ failure' = "none"
            /\ prediction_dictionary' =
                 add_prediction_to_dictionary(prediction_features[i], objs[i], EmptyDictionary)
  /\ call' = Call("add_prediction_to_dictionary", prediction_features[i].name, NoTensor)
  /\ log' = <<>>
  /\ UNCHANGED <<prediction_features, params, objs, dictionary, std_calls, steps, network_calls, lossVars>>
  /\ UNCHANGED driverVars

NextFeature ==
  \/ \E i \in 1..Len(prediction_features), dict \in Dictionaries : InitializeSources(i, dict)
  \/ \E i \in 1..Len(prediction_features) : Standardize(i)
  \/ \E i \in 1..Len(prediction_features) :
       \E prediction \in Predictions(prediction_features[i]) : AddPrediction(i, prediction)
  \/ \E i \in 1..Len(prediction_features) : AddPredictionToDictionary(i)

SpecFeature == InitFeature /\ [][NextFeature]_vars

----------------------------------------------------------------------------
(* Properties of PredictionFeature (SpecFeature) *)

\* The tensor initialize_sources_from_dictionary last stored as source `index` of feature i.
RawSource(i, index) ==
  SourceTensor(dictionary[i], prediction_features[i].name, index,
               prediction_features[i].number_of_channels)

StandardizedSource(i, index) ==
  IF prediction_features[i].feature_standardization.present
    THEN standardize(prediction_features[i].feature_standardization, RawSource(i, index))
    ELSE RawSource(i, index)

\* Position of a step of standardize() in the order (1) .. (4).
StepRank(op) ==
  CASE op = "variance_before" -> 1
    [] op = "preserve_source" -> 2
    [] op = "standardize" -> 3
    [] op = "variance_after" -> 4
    [] OTHER -> 0

LogIndices(op) == {k \in 1..Len(log) : log[k].op = op}

\* The last call was the first standardize() after the sources of feature i were initialized.
FirstStandardize(i) ==
  /\ call.op = "standardize"
  /\ call.feature = prediction_features[i].name
  /\ objs[i].loaded
  /\ std_calls[i] = 1

\* C1: standardize() on freshly initialized sources runs (1) variance over the
\* raw sources iff variance is enabled and computed before standardization,
\* (2) the snapshot of source 0 iff preserve_source, (3) the standardization of
\* every source iff a standardization is configured, (4) variance over the
\* standardized sources iff variance is enabled and not computed before, in
\* this order; never both (1) and (4); preserved_source is the raw source 0.
C1_StandardizeOrder ==
  \A i \in 1..Len(prediction_features) :
    FirstStandardize(i) =>
      LET pf == prediction_features[i]
          n == pf.number_of_sources
      IN /\ \A j, k \in 1..Len(log) : j < k => StepRank(log[j].op) <= StepRank(log[k].op)
         /\ \A k \in 1..Len(log) : StepRank(log[k].op) > 0
         /\ LogIndices("variance_before") = {} \/ LogIndices("variance_after") = {}
         /\ Cardinality(LogIndices("variance_before")) =
              (IF pf.use_variance /\ pf.compute_before_standardization THEN n ELSE 0)
         /\ Cardinality(LogIndices("preserve_source")) = (IF pf.preserve_source THEN 1 ELSE 0)
         /\ Cardinality(LogIndices("standardize")) =
              (IF pf.feature_standardization.present THEN n ELSE 0)
         /\ Cardinality(LogIndices("variance_after")) =
              (IF pf.use_variance /\ ~pf.compute_before_standardization THEN n ELSE 0)
         /\ \A k \in LogIndices("variance_before") :
              log[k].tensor = variance(pf, RawSource(i, log[k].index))
         /\ \A k \in LogIndices("variance_after") :
              log[k].tensor = variance(pf, StandardizedSource(i, log[k].index))
         /\ \A k \in LogIndices("standardize") :
              log[k].tensor = StandardizedSource(i, log[k].index)
         /\ pf.preserve_source => objs[i].preserved_source = <<RawSource(i, 0)>>

\* A feature with variance after standardization, a snapshot and a standardization
\* that changes the values: all of steps (2), (3), (4) ran.
C1_Witness ==
  /\ FirstStandardize(1)
  /\ prediction_features[1].preserve_source
  /\ prediction_features[1].use_variance
  /\ ~prediction_features[1].compute_before_standardization
  /\ prediction_features[1].number_of_sources = 2
  /\ objs[1].source[1] # RawSource(1, 0)
  /\ objs[1].preserved_source = <<RawSource(1, 0)>>
  /\ Len(log) = 5

\* C2: the first standardize() after initialize_sources_from_dictionary
\* completes, and then the variance list has number_of_sources entries, entry i
\* computed from source i (raw or standardized, by the flag), when variance is
\* enabled, and is empty when it is disabled; also in a later step.
C2_VarianceLength ==
  \A i \in 1..Len(prediction_features) :
    FirstStandardize(i) =>
      LET pf == prediction_features[i]
      IN /\ failure = "none"
         /\ IF pf.use_variance
              THEN /\ Len(objs[i].variance) = pf.number_of_sources
                   /\ \A index \in 0..(pf.number_of_sources - 1) :
                        objs[i].variance[index + 1] =
                          variance(pf, IF pf.compute_before_standardization
                                         THEN RawSource(i, index)
                                         ELSE objs[i].source[index + 1])
              ELSE objs[i].variance = <<>>

\* The second step of a run: sources initialized again, then standardized, with variance.
C2_Witness ==
  /\ FirstStandardize(1)
  /\ steps = 2
  /\ prediction_features[1].use_variance
  /\ prediction_features[1].number_of_sources = 2
  /\ Len(objs[1].variance) = 2
  /\ failure = "none"

\* A step that calls standardize() on feature i again without re-initializing its sources.
SecondStandardize(i) ==
  /\ objs[i].loaded
  /\ std_calls[i] >= 1
  /\ std_calls'[i] = std_calls[i] + 1

\* C3 as claimed: a second standardize() without re-initialization raises an
\* assertion failure and leaves the sources as they were, for every configuration.
C3_DoubleStandardizeAlwaysFails ==
  [][\A i \in 1..Len(prediction_features) :
       SecondStandardize(i) =>
         /\ failure' = "AssertionError"
         /\ objs'[i].source = objs[i].source]_vars

\* C3 amended: with variance enabled a second standardize() without
\* re-initialization raises an assertion failure and leaves the variance list
\* as it was; the sources and the snapshot are left untouched when the variance
\* is computed before standardization.  With variance disabled it completes
\* without failure.
C3_DoubleStandardizeWithVariance ==
  [][\A i \in 1..Len(prediction_features) :
       SecondStandardize(i) =>
         IF prediction_features[i].use_variance
           THEN /\ failure' = "AssertionError"
                /\ objs'[i].variance = objs[i].variance
                /\ prediction_features[i].compute_before_standardization =>
                     /\ objs'[i].source = objs[i].source
                     /\ objs'[i].preserved_source = objs[i].preserved_source
           ELSE failure' = "none"]_vars

\* A second standardize() on a feature with variance has been refused.
C3_Witness ==
  /\ call.op = "standardize"
  /\ objs[1].loaded
  /\ std_calls[1] = 2
  /\ prediction_features[1].use_variance
  /\ failure = "AssertionError"
  /\ Len(objs[1].variance) = prediction_features[1].number_of_sources

\* C4: add_prediction raises on a feature that is not a target and stores the
\* given prediction on a target; a feature that is not a target never holds a
\* prediction.
C4_PredictionOnlyOnTarget ==
  \A i \in 1..Len(prediction_features) :
    /\ ~prediction_features[i].is_target => objs[i].prediction = <<>>
    /\ (call.op = "add_prediction" /\ call.feature = prediction_features[i].name) =>
         IF prediction_features[i].is_target
           THEN failure = "none" /\ objs[i].prediction = <<call.arg>>
           ELSE failure = "Exception"

\* add_prediction was refused on a feature that is not a target.
C4_Witness ==
  /\ call.op = "add_prediction"
  /\ ~prediction_features[1].is_target
  /\ failure = "Exception"
  /\ objs[1].prediction = <<>>

----------------------------------------------------------------------------
(* Spec: model_fn steps over a list of PredictionFeatures *)

FullStandardization == FeatureStandardization(TRUE, 2, 4)

NoVariance == [use_variance |-> FALSE, compute_before_standardization |-> FALSE]
VarianceBefore == [use_variance |-> TRUE, compute_before_standardization |-> TRUE]
VarianceAfter == [use_variance |-> TRUE, compute_before_standardization |-> FALSE]

\* The flags of one feature of a configuration: a target with or without source
\* preservation, standardization and variance; any other feature as main()
\* constructs it (preserve_source = use_kernel_predicion, standardization present).
ModelFeatureFlags(ps) ==
  [is_target : {TRUE}, preserve_source : BOOLEAN,
   feature_standardization : {FullStandardization},
   feature_variance : {VarianceBefore, VarianceAfter}]
  \cup
  [is_target : {TRUE}, preserve_source : BOOLEAN,
   feature_standardization : {NoStandardization},
   feature_variance : {NoVariance}]
  \cup
  [is_target : {FALSE}, preserve_source : {ps.use_kernel_predicion},
   feature_standardization : {FullStandardization},
   feature_variance : {NoVariance, VarianceAfter}]

ModelFeature(name, n, flags) ==
  PredictionFeature(n, flags.preserve_source, flags.is_target, flags.feature_standardization,
                    flags.feature_variance.use_variance,
                    flags.feature_variance.compute_before_standardization,
                    name = "C", name)

ParamsConfigs ==
  [use_kernel_predicion : BOOLEAN, kernel_size : KernelSizes, use_single_feature_prediction : BOOLEAN]

Init ==
  /\ params \in ParamsConfigs
  /\ \E count \in 1..MaxFeatures, n \in {1, MaxSources} :
       \E flags \in [1..count -> ModelFeatureFlags(params)] :
         prediction_features = [i \in 1..count |-> ModelFeature(FeatureNames[i], n, flags[i])]
  /\ objs = [i \in 1..Len(prediction_features) |-> NewObject]
  /\ dictionary = [i \in 1..Len(prediction_features) |-> ""]
  /\ std_calls = [i \in 1..Len(prediction_features) |-> 0]
  /\ steps = 0
  /\ call = Call("__init__", "", NoTensor)
  /\ failure = "none"
  /\ log = <<>>
  /\ network_calls = <<>>
  /\ prediction_dictionary = EmptyDictionary
  /\ training_feature = NoTrainingFeature
  /\ loss_result = 0
  /\ attribute_reads = {}
  /\ InitDriver

\* One training / evaluation step up to the predictions.
ModelFn(features) ==
  /\ steps < MaxSteps
  /\ \E result \in {model_fn(prediction_features, params, objs, features)} :
        /\ objs' = result.context.objs
        /\ failure' = result.context.failure
        /\ log' = result.context.log
        /\ network_calls' = result.context.network_calls
        /\ prediction_dictionary' = result.predictions
  /\ dictionary' = [i \in 1..Len(prediction_features) |-> features]
  /\ std_calls' = [i \in 1..Len(prediction_features) |-> 1]
  /\ steps' = steps + 1
  /\ call' = Call("model_fn", "", NoTensor)
  /\ UNCHANGED <<prediction_features, params, lossVars>>
  /\ UNCHANGED driverVars

\* The input pipeline hands a new batch to every step.
NextBatch == IF steps % 2 = 0 THEN "batch1" ELSE "batch2"

Next == ModelFn(NextBatch)

Spec == Init /\ [][Next]_vars

----------------------------------------------------------------------------
(* Properties of the model assembly (Spec) *)

AfterModel == call.op = "model_fn"

\* Positions of the target features, in the order of prediction_features.
Targets == OutputPredictionFeatures(prediction_features, 1)

TargetNames == {prediction_features[Targets[k]].name : k \in 1..Len(Targets)}

EventsOf(op, name) == {k \in 1..Len(log) : log[k].op = op /\ log[k].feature = name}

\* Width of the backbone output that belongs to one target feature.
ExpectedWidth(pf) ==
  IF params.use_kernel_predicion THEN params.kernel_size * params.kernel_size
  ELSE pf.number_of_channels

ExpectedWidths == [k \in 1..Len(Targets) |-> ExpectedWidth(prediction_features[Targets[k]])]

\* The part of the backbone output that belongs to the k-th target feature.
BackboneOutput(k) ==
  IF params.use_single_feature_prediction
    THEN network_calls[k].output
    ELSE Tensor(network_calls[1].output.term \o <<"split", ToString(k - 1)>>, ExpectedWidths[k])

\* C5: after a model() call that completed, in either architecture, every
\* target feature went through exactly one post-processing path.  Kernel
\* prediction off: prediction_invert_standardize ran exactly once, no kernel
\* filter ran, and the prediction is the inverse standardization of the
\* backbone output.  Kernel prediction on: no inverse standardization ran, the
\* kernel filter ran once, and the prediction is the filter applied to the raw
\* source 0 with the backbone output as weights.  Even in a call that failed no
\* feature went through both paths.
C5_OnePostProcessingPath ==
  AfterModel =>
    \A k \in 1..Len(Targets) :
      LET i == Targets[k]
          pf == prediction_features[i]
          inverted == Cardinality(EventsOf("prediction_invert_standardize", pf.name))
          applied == Cardinality(EventsOf("invert_standardize", pf.name))
          filtered == Cardinality(EventsOf("kernel_prediction", pf.name))
      IN /\ inverted = 0 \/ filtered = 0
         /\ failure = "none" =>
              IF ~params.use_kernel_predicion
                THEN /\ inverted = 1
                     /\ applied = (IF pf.feature_standardization.present THEN 1 ELSE 0)
                     /\ filtered = 0
                     /\ objs[i].prediction =
                          <<invert_standardize(pf.feature_standardization, BackboneOutput(k))>>
                ELSE /\ inverted = 0
                     /\ applied = 0
                     /\ filtered = 1
                     /\ objs[i].prediction =
                          <<kernel_prediction(RawSource(i, 0), BackboneOutput(k), params.kernel_size)>>

\* A completed combined-architecture call with kernel prediction on two standardized targets.
C5_Witness ==
  /\ AfterModel
  /\ failure = "none"
  /\ params.use_kernel_predicion
  /\ ~params.use_single_feature_prediction
  /\ Len(Targets) = 2
  /\ \A k \in 1..2 : prediction_features[Targets[k]].feature_standardization.present
  /\ objs[Targets[2]].prediction =
       <<kernel_prediction(RawSource(Targets[2], 0), BackboneOutput(2), params.kernel_size)>>

\* Rank, among the targets, of the first target that does not preserve its source (0 if none).
FirstUnpreserved ==
  LET unpreserved == {k \in 1..Len(Targets) : ~prediction_features[Targets[k]].preserve_source}
  IN IF unpreserved = {} THEN 0 ELSE CHOOSE k \in unpreserved : \A j \in unpreserved : k <= j

\* C6: with kernel prediction on and a target feature whose preserve_source
\* is false, model() fails with an assertion failure in both architectures and
\* returns nothing; no kernel filter is applied to that feature or to any later
\* target, whose prediction is at most the raw backbone output (in the
\* single-feature architecture the backbone is not even invoked for the later
\* targets), while every earlier target has its filtered prediction.
C6_KernelNeedsPreservedSource ==
  (AfterModel /\ params.use_kernel_predicion /\ FirstUnpreserved > 0) =>
    /\ failure = "AssertionError"
    /\ prediction_dictionary = EmptyDictionary
    /\ Len(network_calls) =
         (IF params.use_single_feature_prediction THEN FirstUnpreserved ELSE 1)
    /\ \A k \in 1..Len(Targets) :
         LET i == Targets[k]
             filtered == EventsOf("kernel_prediction", prediction_features[i].name)
         IN IF k < FirstUnpreserved
              THEN /\ Cardinality(filtered) = 1
                   /\ objs[i].prediction =
                        <<kernel_prediction(RawSource(i, 0), BackboneOutput(k), params.kernel_size)>>
              ELSE /\ filtered = {}
                   /\ IF params.use_single_feature_prediction /\ k > FirstUnpreserved
                        THEN objs[i].prediction = <<>>
                        ELSE objs[i].prediction = <<BackboneOutput(k)>>

\* Single-feature architecture: the first target preserves its source, the second does not.
C6_Witness ==
  /\ AfterModel
  /\ params.use_kernel_predicion
  /\ params.use_single_feature_prediction
  /\ Len(Targets) = 3
  /\ FirstUnpreserved = 2
  /\ failure = "AssertionError"
  /\ Len(network_calls) = 2
  /\ objs[Targets[3]].prediction = <<>>

IsAddPrediction(event) == event.op = "add_prediction"

\* C7: the combined-features architecture invokes the backbone once, asking
\* for the sum over the target features of kernel_size^2 (kernel prediction) or
\* of number_of_channels, and assigns slice k of that width to the k-th target
\* feature in the order of prediction_features.
C7_SplitWidthsAndOrder ==
  (AfterModel /\ ~params.use_single_feature_prediction /\ Len(Targets) > 0) =>
    LET assigned == SelectSeq(log, IsAddPrediction)
    IN /\ Len(network_calls) = 1
       /\ network_calls[1].output_size = Sum(ExpectedWidths)
       /\ network_calls[1].output.channels = Sum(ExpectedWidths)
       /\ Len(assigned) >= Len(Targets)
       /\ \A k \in 1..Len(Targets) :
            /\ assigned[k].feature = prediction_features[Targets[k]].name
            /\ assigned[k].tensor.term = network_calls[1].output.term \o <<"split", ToString(k - 1)>>
            /\ assigned[k].tensor.channels =
                 (IF params.use_kernel_predicion THEN params.kernel_size * params.kernel_size
                  ELSE prediction_features[Targets[k]].number_of_channels)

\* Targets A (3 channels) and C (2 channels) around a feature that is no target, kernel prediction on.
C7_Witness ==
  /\ AfterModel
  /\ ~params.use_single_feature_prediction
  /\ params.use_kernel_predicion
  /\ failure = "none"
  /\ Len(prediction_features) = 3
  /\ Targets = <<1, 3>>
  /\ network_calls[1].output_size = 18

\* C8: the single-feature architecture invokes the backbone once per target
\* feature, in order, under the same variable scope; the first invocation
\* creates the weights (reuse false), every later one reuses them (reuse true);
\* a feature that is not a target causes no invocation.
C8_WeightReuse ==
  (AfterModel /\ params.use_single_feature_prediction) =>
    /\ Len(network_calls) <= Len(Targets)
    /\ failure = "none" => Len(network_calls) = Len(Targets)
    /\ \A k \in 1..Len(network_calls) :
         /\ network_calls[k].reuse = (k > 1)
         /\ network_calls[k].scope = "reused_model"
         /\ network_calls[k].inputs[1] = objs[Targets[k]].source[1]

\* Three invocations, around a feature that is no target.
C8_Witness ==
  /\ AfterModel
  /\ params.use_single_feature_prediction
  /\ failure = "none"
  /\ Len(prediction_features) = 3
  /\ Targets = <<1, 3>>
  /\ Len(network_calls) = 2
  /\ ~network_calls[1].reuse
  /\ network_calls[2].reuse

\* model_fn on the same features and the same input under the other architecture.
OtherArchitecture ==
  model_fn(prediction_features,
           [params EXCEPT !.use_single_feature_prediction = ~@],
           [i \in 1..Len(prediction_features) |-> NewObject],
           dictionary[1])

\* C9: whichever architecture is configured, a model() call that returns
\* returns a dictionary with exactly one entry per target feature, the
\* feature's prediction, and no entry for any other feature; the other
\* architecture, run on the same features, returns the same key set.
C9_SameKeys ==
  AfterModel =>
    /\ failure = "none" =>
         /\ DOMAIN prediction_dictionary = TargetNames
         /\ \A k \in 1..Len(Targets) :
              prediction_dictionary[prediction_features[Targets[k]].name] =
                objs[Targets[k]].prediction[1]
    /\ \A other \in {OtherArchitecture} :
         other.returned =>
           /\ DOMAIN other.predictions = TargetNames
           /\ failure = "none" => DOMAIN other.predictions = DOMAIN prediction_dictionary

\* Two targets and a feature that is no target: two keys.
C9_Witness ==
  /\ AfterModel
  /\ failure = "none"
  /\ Len(prediction_features) = 3
  /\ Targets = <<1, 3>>
  /\ DOMAIN prediction_dictionary = {"A", "C"}
  /\ OtherArchitecture.returned

----------------------------------------------------------------------------
(* The network input of the two architectures (Spec) *)

\* A slot is one source of one feature: <<position of the feature, source index>>.
Slots ==
  UNION {{<<i, index>> : index \in 0..(prediction_features[i].number_of_sources - 1)} :
           i \in 1..Len(prediction_features)}

\* Tensors a slot contributes: the source, and its variance if variance is enabled.
SlotLength(slot) == IF prediction_features[slot[1]].use_variance THEN 2 ELSE 1

\* The group of the combined input a slot belongs to.
Group(slot) ==
  IF ~prediction_features[slot[1]].is_target THEN 3
  ELSE IF slot[2] = 0 THEN 1 ELSE 2

\* Group first, then the order of prediction_features, then the source index.
SlotBefore(a, b) ==
  \/ Group(a) < Group(b)
  \/ Group(a) = Group(b) /\ a[1] < b[1]
  \/ Group(a) = Group(b) /\ a[1] = b[1] /\ a[2] < b[2]

\* Number of tensors the slots of a set contribute.
SlotTensors(slots) ==
  Cardinality(slots) + Cardinality({slot \in slots : SlotLength(slot) = 2})

\* Where the source of a slot stands in a list that holds the slots of `among` in order.
SlotPosition(slot, among) == 1 + SlotTensors({other \in among : SlotBefore(other, slot)})

\* Channels one source of a feature brings: its own plus those of its variance.
SlotChannels(pf) ==
  pf.number_of_channels
    + (IF ~pf.use_variance THEN 0
       ELSE IF pf.compress_to_one_channel THEN 1 ELSE pf.number_of_channels)

Width(inputs) == Sum([p \in 1..Len(inputs) |-> inputs[p].channels])

Occurs(tensor, inputs) == Cardinality({p \in 1..Len(inputs) : inputs[p] = tensor})

\* `inputs` holds exactly the slots of `among`, in order, each source directly
\* followed by its variance if variance is enabled, each exactly once.
HoldsInOrder(inputs, among) ==
  /\ Len(inputs) = SlotTensors(among)
  /\ \A slot \in among :
       LET pf == prediction_features[slot[1]]
           p == SlotPosition(slot, among)
       IN /\ inputs[p] = objs[slot[1]].source[slot[2] + 1]
          /\ Occurs(objs[slot[1]].source[slot[2] + 1], inputs) = 1
          /\ pf.use_variance =>
               /\ inputs[p + 1] = objs[slot[1]].variance[slot[2] + 1]
               /\ Occurs(objs[slot[1]].variance[slot[2] + 1], inputs) = 1

\* C21: in the combined-features architecture the backbone input is the
\* concatenation of (1) source 0 of every target feature, (2) the sources with
\* index >= 1 of every target feature, (3) every source of every other feature,
\* in this order and in the order of prediction_features inside a group; each
\* source is directly followed by its variance if variance is enabled.  Every
\* source and every enabled variance of every feature appears exactly once, and
\* the input width is the sum over all features and sources of the channel
\* count plus the variance channels.
C21_CombinedInputLayout ==
  (AfterModel /\ ~params.use_single_feature_prediction /\ Len(Targets) > 0) =>
    /\ Len(network_calls) = 1
    /\ HoldsInOrder(network_calls[1].inputs, Slots)
    /\ Width(network_calls[1].inputs) =
         Sum([i \in 1..Len(prediction_features) |->
                prediction_features[i].number_of_sources * SlotChannels(prediction_features[i])])

\* Targets A (3 channels) and B (1 channel) with two sources each, and C (2
\* channels, variance compressed to one channel) as plain auxiliary input.
C21_Witness ==
  /\ AfterModel
  /\ ~params.use_single_feature_prediction
  /\ failure = "none"
  /\ Len(prediction_features) = 3
  /\ Targets = <<1, 2>>
  /\ prediction_features[1].number_of_sources = 2
  /\ prediction_features[1].use_variance
  /\ ~prediction_features[2].use_variance
  /\ prediction_features[3].use_variance
  /\ Len(network_calls[1].inputs) = 10
  /\ Width(network_calls[1].inputs) = 2 * 6 + 2 * 1 + 2 * 3
  /\ network_calls[1].inputs[2] = objs[1].variance[1]
  /\ network_calls[1].inputs[3] = objs[2].source[1]
  /\ network_calls[1].inputs[4] = objs[1].source[2]

\* The slots of feature i.
OwnSlots(i) == {slot \in Slots : slot[1] = i}

\* The slots of the features that are no target.
PoolSlots == {slot \in Slots : ~prediction_features[slot[1]].is_target}

\* The tensors of a network input after the first `count` ones.
After(inputs, count) == SubSeq(inputs, count + 1, Len(inputs))

\* C22: in the single-feature architecture the backbone input for a target
\* feature holds that feature's own sources and enabled variances followed by
\* the pool of the sources and variances of all features that are no target,
\* and no source or variance of any other target feature; the pool is the same
\* for every target feature.
C22_SingleInputOwnAndPool ==
  (AfterModel /\ params.use_single_feature_prediction) =>
    \A k \in 1..Len(network_calls) :
      LET i == Targets[k]
          inputs == network_calls[k].inputs
      IN /\ HoldsInOrder(inputs, OwnSlots(i) \cup PoolSlots)
         /\ HoldsInOrder(After(inputs, SlotTensors(OwnSlots(i))), PoolSlots)
         /\ After(inputs, SlotTensors(OwnSlots(i))) =
              After(network_calls[1].inputs, SlotTensors(OwnSlots(Targets[1])))
         /\ \A slot \in Slots :
              (prediction_features[slot[1]].is_target /\ slot[1] # i) =>
                /\ Occurs(objs[slot[1]].source[slot[2] + 1], inputs) = 0
                /\ prediction_features[slot[1]].use_variance =>
                     Occurs(objs[slot[1]].variance[slot[2] + 1], inputs) = 0

\* Targets A and B with two sources each and variance, C as the pool.
C22_Witness ==
  /\ AfterModel
  /\ params.use_single_feature_prediction
  /\ failure = "none"
  /\ Len(prediction_features) = 3
  /\ Targets = <<1, 2>>
  /\ prediction_features[1].number_of_sources = 2
  /\ prediction_features[1].use_variance
  /\ prediction_features[2].use_variance
  /\ prediction_features[3].use_variance
  /\ Len(network_calls) = 2
  /\ Len(network_calls[2].inputs) = 8
  /\ network_calls[2].inputs[3] = objs[2].source[2]
  /\ After(network_calls[2].inputs, 4) = After(network_calls[1].inputs, 4)
  /\ Occurs(objs[1].source[2], network_calls[2].inputs) = 0

\* The feature-flag tensors computed for a feature during the last model() call.
ComputedFeatureFlags(name) == {log[e].tensor : e \in EventsOf("feature_flags", name)}

\* C23: in the single-feature architecture the feature-flag signal computed
\* for a target feature is part of the tensor handed to the backbone for that
\* feature.
C23_FeatureFlagsInInput ==
  (AfterModel /\ params.use_single_feature_prediction) =>
    \A k \in 1..Len(network_calls) :
      /\ ComputedFeatureFlags(prediction_features[Targets[k]].name) # {}
      /\ \A flags \in ComputedFeatureFlags(prediction_features[Targets[k]].name) :
           Occurs(flags, network_calls[k].inputs) >= 1

----------------------------------------------------------------------------
(* SpecLoss: one training feature, initialize() and loss() in any order *)

\* Loss weights, scaled to integers: a negative, the zero and a positive weight.
WeightValues == {-1, 0, 2}

TermSet == {LossTerms[k] : k \in 1..Len(LossTerms)}

\* The track_ flags of a training feature, as the set of tracked terms.
TrackedConfigs == {{}, {"mean", "masked_mean"}, {"masked_ms_ssim"}, TermSet}

InitLoss ==
  /\ \E weights \in [TermSet -> WeightValues], tracked \in TrackedConfigs, has_mask \in BOOLEAN :
       training_feature = TrainingFeature("A", weights, tracked, has_mask)
  /\ loss_result = 0
  /\ attribute_reads = {}
  /\ prediction_features = <<>>
  /\ params = NoParams
  /\ objs = <<>>
  /\ dictionary = <<>>
  /\ std_calls = <<>>
  /\ steps = 0
  /\ call = Call("__init__", "A", NoTensor)
  /\ failure = "none"
  /\ log = <<>>
  /\ network_calls = <<>>
  /\ prediction_dictionary = EmptyDictionary
  /\ InitDriver

InitializeTrainingFeature(data, mask_sum) ==
  /\ training_feature' = TrainingFeature_initialize(training_feature, data, mask_sum)
  /\ call' = Call("initialize", training_feature.name, NoTensor)
  /\ failure' = "none"
  /\ log' = <<>>
  /\ UNCHANGED <<loss_result, attribute_reads>>
  /\ UNCHANGED <<prediction_features, params, objs, dictionary, std_calls, steps, modelVars>>
  /\ UNCHANGED driverVars

Loss ==
  /\ \E lc \in {BaseTrainingFeature_loss(training_feature)} :
        /\ failure' = lc.failure
        /\ log' = lc.log
        /\ attribute_reads' = lc.reads
        /\ loss_result' = IF lc.failure = "none" THEN lc.result ELSE loss_result
  /\ call' = Call("loss", training_feature.name, NoTensor)
  /\ UNCHANGED training_feature
  /\ UNCHANGED <<prediction_features, params, objs, dictionary, std_calls, steps, modelVars>>
  /\ UNCHANGED driverVars

AddTrackedSummaries ==
  /\ \E sc \in {BaseTrainingFeature_add_tracked_summaries(training_feature)} :
        /\ failure' = sc.failure
        /\ log' = sc.log
        /\ outcome' = sc.summaries
  /\ call' = Call("add_tracked_summaries", training_feature.name, NoTensor)
  /\ UNCHANGED lossVars
  /\ UNCHANGED <<featureVars, modelVars, arguments, mainVars>>

NextLoss ==
  \/ \E data \in Dictionaries, mask_sum \in {0, 1} : InitializeTrainingFeature(data, mask_sum)
  \/ Loss
  \/ AddTrackedSummaries

SpecLoss == InitLoss /\ [][NextLoss]_vars

----------------------------------------------------------------------------
(* Properties of loss() (SpecLoss) *)

Weight(term) == training_feature.weights[term]

PositiveTerms == {term \in TermSet : Weight(term) > 0}

EvaluatedTerms == {log[k].op : k \in 1..Len(log)}

\* weight * value of a term if its weight is positive, else nothing.
Contribution(term, value) == IF Weight(term) > 0 THEN Weight(term) * value ELSE 0

\* C10: loss() evaluates only terms whose weight is strictly positive, each
\* at most once and in the order of the six terms; when it returns, it
\* evaluated all of them and the result is the sum of weight * term over them;
\* with no positive weight it returns 0 without evaluating or reading anything,
\* even before initialize() bound predicted, target or mask.
C10_LossSumsPositiveTerms ==
  call.op = "loss" =>
    /\ EvaluatedTerms \subseteq PositiveTerms
    /\ \A j, k \in 1..Len(log) : j < k =>
         \E a, b \in 1..Len(LossTerms) : a < b /\ LossTerms[a] = log[j].op /\ LossTerms[b] = log[k].op
    /\ failure = "none" =>
         /\ EvaluatedTerms = PositiveTerms
         /\ loss_result =
              Contribution("mean", TermValue("mean", training_feature.data))
              + Contribution("variation", TermValue("variation", training_feature.data))
              + Contribution("ms_ssim", TermValue("ms_ssim", training_feature.data))
              + Contribution("masked_mean",
                             IF training_feature.mask_sum > 0
                               THEN TermValue("masked_mean", training_feature.data) ELSE 0)
              + Contribution("masked_variation",
                             IF training_feature.mask_sum > 0
                               THEN TermValue("masked_variation", training_feature.data) ELSE 0)
    /\ PositiveTerms = {} =>
         /\ failure = "none"
         /\ loss_result = 0
         /\ log = <<>>
         /\ attribute_reads = {}

\* A loss over two positive terms next to a negative and zero weights.
C10_Witness ==
  /\ call.op = "loss"
  /\ failure = "none"
  /\ training_feature.bound
  /\ training_feature.data = "batch2"
  /\ PositiveTerms = {"mean", "masked_mean"}
  /\ Weight("variation") < 0
  /\ training_feature.mask_sum > 0
  /\ loss_result = 2 * 11 + 2 * 14

\* The summaries the last add_tracked_summaries() call emitted.
SummaryTerms == {outcome[k].term : k \in 1..Len(outcome)}

\* C11: masked_ms_ssim() always raises: whenever a call evaluated it, it was
\* the last thing the call did and the call failed with its exception.  So
\* loss() raises whenever masked_ms_ssim_weight > 0 and returns no value, and
\* add_tracked_summaries() raises whenever track_masked_ms_ssim is set and
\* emits no summary for it.
C11_MaskedMsSsimFailsLoudly ==
  /\ \A k \in 1..Len(log) :
       log[k].op = "masked_ms_ssim" => k = Len(log) /\ failure = "Exception"
  /\ (call.op = "loss" /\ Weight("masked_ms_ssim") > 0) =>
       /\ failure # "none"
       /\ (\A term \in PositiveTerms \ {"masked_ms_ssim"} :
             EvaluateTerm(training_feature, term).failure = "none") =>
            /\ failure = "Exception"
            /\ log[Len(log)].op = "masked_ms_ssim"
  /\ (call.op = "add_tracked_summaries" /\ "masked_ms_ssim" \in training_feature.tracked) =>
       /\ failure # "none"
       /\ "masked_ms_ssim" \notin SummaryTerms
       /\ (\A term \in training_feature.tracked \ {"masked_ms_ssim"} :
             EvaluateTerm(training_feature, term).failure = "none") =>
            /\ failure = "Exception"
            /\ log[Len(log)].op = "masked_ms_ssim"

\* loss() on an initialized feature with a mask reaches masked_ms_ssim() after
\* two other terms and fails there.
C11_Witness ==
  /\ call.op = "loss"
  /\ training_feature.bound /\ training_feature.masked
  /\ PositiveTerms = {"mean", "masked_mean", "masked_ms_ssim"}
  /\ Len(log) = 3
  /\ log[3].op = "masked_ms_ssim"
  /\ failure = "Exception"

----------------------------------------------------------------------------
(* SpecConfig: main() builds the TrainingFeature of one configured feature, *)
(* which is then initialized and evaluated as in SpecLoss                    *)

\* Names of configured features: two light-path passes, their colour pass and
\* a pass without a light-path distinction.
RenderPassNames == {"Diffuse Direct", "Diffuse Indirect", "Diffuse Color", "Normal"}

\* RenderPasses.is_direct_or_indirect_render_pass
is_direct_or_indirect_render_pass(name) ==
  name \in {"Diffuse Direct", "Diffuse Indirect", "Glossy Direct", "Glossy Indirect",
            "Subsurface Direct", "Subsurface Indirect", "Transmission Direct", "Transmission Indirect"}

\* The keys of loss_weights / loss_weights_masked and the term each one weighs.
WeightKeys == {"mean", "variation", "ms_ssim"}

ZeroWeights == [key \in WeightKeys |-> 0]

\* loss_weights_masked, or the zeros main() substitutes when the key is absent.
LossWeightsMasked(feature) ==
  IF "loss_weights_masked" \in DOMAIN feature THEN feature.loss_weights_masked ELSE ZeroWeights

\* statistics_masked, or the all-False flags main() substitutes when the key is absent.
StatisticsMasked(feature) ==
  IF "statistics_masked" \in DOMAIN feature THEN feature.statistics_masked ELSE {}

\* The six weights of the TrainingFeature main() constructs, by term.
ConfiguredWeights(feature) ==
  [term \in {LossTerms[k] : k \in 1..Len(LossTerms)} |->
     CASE term = "mean" -> feature.loss_weights["mean"]
       [] term = "variation" -> feature.loss_weights["variation"]
       [] term = "ms_ssim" -> feature.loss_weights["ms_ssim"]
       [] term = "masked_mean" -> LossWeightsMasked(feature)["mean"]
       [] term = "masked_variation" -> LossWeightsMasked(feature)["variation"]
       [] term = "masked_ms_ssim" -> LossWeightsMasked(feature)["ms_ssim"]]

\* The terms whose track_ flag main() sets.
ConfiguredTracked(feature) ==
  feature.statistics \cup {"masked_mean" : x \in StatisticsMasked(feature) \cap {"mean"}}
                     \cup {"masked_variation" : x \in StatisticsMasked(feature) \cap {"variation"}}
                     \cup {"masked_ms_ssim" : x \in StatisticsMasked(feature) \cap {"ms_ssim"}}

\* main(): the body of the loop over feature_names that builds training_features.
main_training_feature(feature_name, feature) ==
  IF feature.is_source /\ feature.is_target
    THEN TrainingFeature(feature_name, ConfiguredWeights(feature), ConfiguredTracked(feature),
                         is_direct_or_indirect_render_pass(feature_name))
    ELSE NoTrainingFeature

\* The entries of "features" in the JSON configuration; the keys
\* loss_weights_masked and statistics_masked are optional.
FeatureJson ==
  [is_source : {TRUE}, is_target : BOOLEAN,
   loss_weights : [WeightKeys -> {0, 2}], statistics : {{}, {"mean"}}]
  \cup
  [is_source : {TRUE}, is_target : BOOLEAN,
   loss_weights : [WeightKeys -> {0, 2}], statistics : {{}, {"mean"}},
   loss_weights_masked : [WeightKeys -> {0, 2}]]
  \cup
  [is_source : {TRUE}, is_target : BOOLEAN,
   loss_weights : [WeightKeys -> {0, 2}], statistics : {{}, {"mean"}},
   loss_weights_masked : [WeightKeys -> {0, 2}],
   statistics_masked : {{"mean"}, {"ms_ssim"}}]

InitConfig ==
  /\ \E feature_name \in RenderPassNames, feature \in FeatureJson :
       arguments = [feature_name |-> feature_name, feature |-> feature]
  /\ training_feature = NoTrainingFeature
  /\ loss_result = 0
  /\ attribute_reads = {}
  /\ prediction_features = <<>>
  /\ params = NoParams
  /\ objs = <<>>
  /\ dictionary = <<>>
  /\ std_calls = <<>>
  /\ steps = 0
  /\ call = Call("__init__", "", NoTensor)
  /\ failure = "none"
  /\ log = <<>>
  /\ network_calls = <<>>
  /\ prediction_dictionary = EmptyDictionary
  /\ outcome = None
  /\ InitMain

ConstructTrainingFeature ==
  /\ call.op = "__init__"
  /\ training_feature' = main_training_feature(arguments.feature_name, arguments.feature)
  /\ call' = Call("main", arguments.feature_name, NoTensor)
  /\ UNCHANGED <<loss_result, attribute_reads, failure, log>>
  /\ UNCHANGED <<featureVars, modelVars, driverVars>>

NextConfig ==
  \/ ConstructTrainingFeature
  \/ training_feature # NoTrainingFeature /\ NextLoss

SpecConfig == InitConfig /\ [][NextConfig]_vars

----------------------------------------------------------------------------
(* Properties of the configuration of training features (SpecConfig) *)

\* C12: no TrainingFeature that lacks a mask (its name is not a direct or
\* indirect render pass) is constructed by main() with
\* masked_ms_ssim_weight > 0.
C12_NoMaskedMsSsimWithoutMask ==
  (training_feature # NoTrainingFeature /\ ~training_feature.has_mask) =>
    training_feature.weights["masked_ms_ssim"] <= 0

\* The first masked term with a positive weight, in the order loss() visits them.
FirstMaskedTerm ==
  IF training_feature.weights["masked_mean"] > 0 THEN "masked_mean" ELSE "masked_variation"

----------------------------------------------------------------------------
(* SpecTraining: main() builds the training features, the combined features *)
(* and the combined image feature; model_fn then runs its loss phase on     *)
(* them, once per step                                                       *)

\* The keys of "combined_features" in the order main() iterates over them.
CombinedNames == <<"Diffuse", "Glossy", "Subsurface", "Transmission">>

\* RenderPasses.combined_to_color_render_pass, combined_to_direct_render_pass,
\* combined_to_indirect_render_pass: the three passes of a combined feature.
combined_to_render_passes(name) ==
  CASE name = "Diffuse" -> <<"Diffuse Color", "Diffuse Direct", "Diffuse Indirect">>
    [] name = "Glossy" -> <<"Glossy Color", "Glossy Direct", "Glossy Indirect">>
    [] name = "Subsurface" -> <<"Subsurface Color", "Subsurface Direct", "Subsurface Indirect">>
    [] OTHER -> <<"Transmission Color", "Transmission Direct", "Transmission Indirect">>

\* RenderPasses.EMISSION, RenderPasses.ENVIRONMENT, RenderPasses.COMBINED
EMISSION == "Emission"
ENVIRONMENT == "Environment"
COMBINED == "Combined"

\* feature_names = sorted(list(features.keys()))
feature_names ==
  <<"Diffuse Color", "Diffuse Direct", "Diffuse Indirect", "Emission", "Environment",
    "Glossy Color", "Glossy Direct", "Glossy Indirect",
    "Subsurface Color", "Subsurface Direct", "Subsurface Indirect",
    "Transmission Color", "Transmission Direct", "Transmission Indirect">>

IsTrainingFeature(tf) == tf # NoTrainingFeature

\* training_features: one TrainingFeature per feature that is source and target, in sorted order.
main_training_features(features) ==
  SelectSeq([k \in 1..Len(feature_names) |->
               main_training_feature(feature_names[k], features[feature_names[k]])],
            IsTrainingFeature)

\* Position of the object of that name in a list of training features, 0 if there is none.
Position(list, name) ==
  IF \E k \in 1..Len(list) : list[k].name = name
    THEN CHOOSE k \in 1..Len(list) : list[k].name = name
    ELSE 0

\* Lookups in feature_name_to_training_feature / combined_feature_name_to_combined_training_feature:
\* a key that is missing raises KeyError.
AllPresent(list, names) == \A k \in 1..Len(names) : Position(list, names[k]) # 0

\* The six weights of a combined feature: the masked ones are passed as 0.0.
CombinedWeights(loss_weights) ==
  [term \in {LossTerms[k] : k \in 1..Len(LossTerms)} |->
     CASE term = "mean" -> loss_weights["mean"]
       [] term = "variation" -> loss_weights["variation"]
       [] term = "ms_ssim" -> loss_weights["ms_ssim"]
       [] OTHER -> 0]

\* A CombinedTrainingFeature or CombinedImageTrainingFeature after __init__:
\* a training feature without mask that refers to its child features.
CombinedTrainingFeature(name, children, loss_weights) ==
  [name |-> name, weights |-> CombinedWeights(loss_weights), tracked |-> {}, has_mask |-> FALSE,
   bound |-> FALSE, masked |-> FALSE, data |-> "", mask_sum |-> 0, children |-> children]

\* `if loss_weights['mean'] > 0. or loss_weights['variation'] > 0:`
UsedInLoss(loss_weights) == loss_weights["mean"] > 0 \/ loss_weights["variation"] > 0

\* The loop over combined_feature_names: a combined feature is constructed
\* only if it has a positive mean or variation weight.
RECURSIVE CombinedLoop(_, _, _, _)
CombinedLoop(combined_features, training_features, made, k) ==
  IF k > Len(CombinedNames) \/ made.failure # "none" THEN made
  ELSE LET name == CombinedNames[k]
           combined_feature == combined_features[name]
       IN IF combined_feature = None THEN CombinedLoop(combined_features, training_features, made, k + 1)
          ELSE IF ~UsedInLoss(combined_feature.loss_weights)
            THEN CombinedLoop(combined_features, training_features, made, k + 1)
          ELSE IF ~AllPresent(training_features, combined_to_render_passes(name))
            THEN [made EXCEPT !.failure = "KeyError"]
          ELSE CombinedLoop(combined_features, training_features,
                 [made EXCEPT !.list = Append(@, CombinedTrainingFeature(
                    name, combined_to_render_passes(name), combined_feature.loss_weights))],
                 k + 1)

\* A name that holds a list or None.
ListOrNone(is_none, list) == [is_none |-> is_none, list |-> list]

\* The list of combined training features left as it is when it is empty.
NoneIfEmpty_keeping(list) == ListOrNone(FALSE, list)

\* `if len(combined_training_features) == 0: combined_training_features = None`
NoneIfEmpty(list) == IF Len(list) = 0 THEN ListOrNone(TRUE, <<>>) ELSE ListOrNone(FALSE, list)

\* The children of the combined image feature: four combined features, two features.
ImageChildren == CombinedNames \o <<EMISSION, ENVIRONMENT>>

\* The combined image training feature: None unless it has a positive mean or
\* variation weight; its construction looks up Diffuse, Glossy, Subsurface and
\* Transmission among the combined features constructed before.
main_combined_image(combined_image, training_features, combined) ==
  IF ~UsedInLoss(combined_image.loss_weights) THEN [failure |-> "none", feature |-> None]
  ELSE IF ~AllPresent(combined, CombinedNames) \/ ~AllPresent(training_features, <<EMISSION, ENVIRONMENT>>)
    THEN [failure |-> "KeyError", feature |-> None]
  ELSE [failure |-> "none",
        feature |-> CombinedTrainingFeature(COMBINED, ImageChildren, combined_image.loss_weights)]

\* What main() hands to the estimator as params, or the exception it raises before.
MainParams(training_features, made, image) ==
  [failure |-> IF made.failure # "none" THEN made.failure ELSE image.failure,
   training_features |-> training_features,
   combined_training_features |-> NoneIfEmpty(made.list),
   combined_image_training_feature |-> image.feature]

MainCombined(config, training_features, made) ==
  MainParams(training_features, made,
             IF made.failure # "none" THEN [failure |-> made.failure, feature |-> None]
             ELSE main_combined_image(config.combined_image, training_features, made.list))

\* main() from the training features to the params of the estimator.
main(config) ==
  MainCombined(config, main_training_features(config.features),
               CombinedLoop(config.combined_features, main_training_features(config.features),
                            [failure |-> "none", list |-> <<>>], 1))

\* The training objects of params with nothing evaluated yet; `values` holds
\* the locals feature_loss, combined_feature_loss and combined_image_feature_loss
\* that have been assigned.
TrainingContext(ps) ==
  [training_features |-> ps.training_features,
   combined_training_features |-> ps.combined_training_features,
   combined_image_training_feature |-> ps.combined_image_training_feature,
   failure |-> "none", log |-> <<>>, values |-> [name \in {} |-> 0], total |-> 0]

\* An initialize() or loss() call of model_fn, the read of a child's predicted and
\* target by a combined feature (with the batch the child was bound to), or the final sum.
TrainingEvent(op, group, name, child, data) ==
  [op |-> op, group |-> group, feature |-> name, child |-> child, data |-> data]

\* Assignment to a local variable of model_fn.
Bind(values, name, value) ==
  [n \in DOMAIN values \cup {name} |-> IF n = name THEN value ELSE values[n]]

\* for training_feature in training_features: training_feature.initialize(features, predictions, targets)
RECURSIVE InitializeFeatures(_, _, _)
InitializeFeatures(tc, data, k) ==
  IF k > Len(tc.training_features) THEN tc
  ELSE InitializeFeatures(
         [tc EXCEPT !.training_features[k] = TrainingFeature_initialize(@, data, 1),
                    !.log = Append(@, TrainingEvent("initialize", "feature",
                                                    tc.training_features[k].name, "", data))],
         data, k + 1)

\* for f in list: losses.append(f.loss()); a loss() that raises ends model_fn.
RECURSIVE LossesOf(_, _, _, _)
LossesOf(list, group, acc, k) ==
  IF k > Len(list) \/ acc.failure # "none" THEN acc
  ELSE LossesOf(list, group,
         [failure |-> BaseTrainingFeature_loss(list[k]).failure,
          log |-> Append(acc.log, TrainingEvent("loss", group, list[k].name, "", list[k].data)),
          sum |-> acc.sum + BaseTrainingFeature_loss(list[k]).result],
         k + 1)

\* The `feature_loss` block of model_fn: every initialize, then every loss;
\* feature_loss is tf.add_n of the losses or 0.0.
FeaturePhase(tc, data) ==
  IF tc.failure # "none" THEN tc
  ELSE LET initialized == InitializeFeatures(tc, data, 1)
           losses == LossesOf(initialized.training_features, "feature",
                              [failure |-> "none", log |-> initialized.log, sum |-> 0], 1)
       IN [initialized EXCEPT !.failure = losses.failure,
                              !.log = losses.log,
                              !.values = IF losses.failure = "none"
                                           THEN Bind(@, "feature_loss", losses.sum) ELSE @]

\* The object a combined feature holds as a child.
ChildObject(tc, name) ==
  IF Position(tc.training_features, name) # 0
    THEN tc.training_features[Position(tc.training_features, name)]
    ELSE tc.combined_training_features.list[Position(tc.combined_training_features.list, name)]

ChildrenBound(tc, object) ==
  \A k \in 1..Len(object.children) : ChildObject(tc, object.children[k]).bound

\* The reads of self.<child>.predicted and self.<child>.target in initialize().
ReadEvents(tc, group, object) ==
  [k \in 1..Len(object.children) |->
     TrainingEvent("read", group, object.name, object.children[k],
                   IF ChildObject(tc, object.children[k]).bound
                     THEN ChildObject(tc, object.children[k]).data ELSE "unbound")]

\* CombinedTrainingFeature.initialize / CombinedImageTrainingFeature.initialize:
\* predicted and target are computed from those of the children; a child
\* without them raises AttributeError.
Combined_initialize(tc, object) ==
  IF ChildrenBound(tc, object)
    THEN [object EXCEPT !.bound = TRUE, !.data = ChildObject(tc, object.children[1]).data]
    ELSE object

\* initialize() of a combined object inside model_fn.
InitializeCombined(tc, group, object) ==
  [tc EXCEPT !.log = Append(@, TrainingEvent("initialize", group, object.name, "", "")) \o
                     ReadEvents(tc, group, object),
             !.failure = IF ChildrenBound(tc, object) THEN "none" ELSE "AttributeError"]

RECURSIVE InitializeCombinedLoop(_, _)
InitializeCombinedLoop(tc, k) ==
  IF k > Len(tc.combined_training_features.list) \/ tc.failure # "none" THEN tc
  ELSE InitializeCombinedLoop(
         [InitializeCombined(tc, "combined", tc.combined_training_features.list[k])
            EXCEPT !.combined_training_features.list[k] = Combined_initialize(tc, @)],
         k + 1)

\* The `combined_feature_loss` block: with a list, combined_feature_loss is
\* assigned only `if len(combined_feature_losses) > 0`; with None it is 0.0.
CombinedPhase(tc) ==
  IF tc.failure # "none" THEN tc
  ELSE IF tc.combined_training_features.is_none
    THEN [tc EXCEPT !.values = Bind(@, "combined_feature_loss", 0)]
  ELSE LET initialized == InitializeCombinedLoop(tc, 1)
           losses == LossesOf(initialized.combined_training_features.list, "combined",
                              [failure |-> initialized.failure, log |-> initialized.log, sum |-> 0], 1)
       IN [initialized EXCEPT !.failure = losses.failure,
                              !.log = losses.log,
                              !.values = IF losses.failure = "none"
                                            /\ Len(initialized.combined_training_features.list) > 0
                                           THEN Bind(@, "combined_feature_loss", losses.sum) ELSE @]

\* The `combined_image_loss` block.
ImagePhase(tc) ==
  IF tc.failure # "none" THEN tc
  ELSE IF tc.combined_image_training_feature = None
    THEN [tc EXCEPT !.values = Bind(@, "combined_image_feature_loss", 0)]
  ELSE LET initialized ==
             [InitializeCombined(tc, "image", tc.combined_image_training_feature)
                EXCEPT !.combined_image_training_feature = Combined_initialize(tc, @)]
           losses == LossesOf(<<initialized.combined_image_training_feature>>, "image",
                              [failure |-> initialized.failure, log |-> initialized.log, sum |-> 0], 1)
       IN [initialized EXCEPT !.failure = losses.failure,
                              !.log = losses.log,
                              !.values = IF losses.failure = "none"
                                           THEN Bind(@, "combined_image_feature_loss", losses.sum)
                                           ELSE @]

LossNames == {"feature_loss", "combined_feature_loss", "combined_image_feature_loss"}

\* loss = tf.add_n([feature_loss, combined_feature_loss, combined_image_feature_loss]):
\* a local that was never assigned raises UnboundLocalError.
TotalLoss(tc) ==
  IF tc.failure # "none" THEN tc
  ELSE IF ~(LossNames \subseteq DOMAIN tc.values) THEN [tc EXCEPT !.failure = "UnboundLocalError"]
  ELSE [tc EXCEPT !.log = Append(@, TrainingEvent("total", "", "", "", "")),
                  !.total = tc.values["feature_loss"] + tc.values["combined_feature_loss"]
                            + tc.values["combined_image_feature_loss"]]

\* A loss phase that starts with the combined features.
LossPhase_combined_first(tc, data) ==
  TotalLoss(ImagePhase(FeaturePhase(CombinedPhase(tc), data)))

\* model_fn in TRAIN or EVAL mode, from `with tf.name_scope('loss_function')` to the sum.
LossPhase(tc, data) ==
  TotalLoss(ImagePhase(CombinedPhase(FeaturePhase(tc, data))))

\* model_fn after model(): PREDICT returns the predictions at once.
model_fn_loss(ps, mode, data) ==
  IF mode = "PREDICT" THEN TrainingContext(ps) ELSE LossPhase(TrainingContext(ps), data)

Modes == {"TRAIN", "EVAL", "PREDICT"}

ZeroLoss == [mean |-> 0, variation |-> 0, ms_ssim |-> 0]

\* An entry of "combined_features": absent, or with no weight, a mean weight or
\* only an ms_ssim weight.
CombinedJson ==
  {None} \cup
  {[loss_weights |-> weights, statistics |-> {}] :
     weights \in {ZeroLoss, [ZeroLoss EXCEPT !.mean = 2], [ZeroLoss EXCEPT !.ms_ssim = 2]}}

\* "combined_image": no weight, a mean weight or a variation weight.
CombinedImageJson ==
  {[loss_weights |-> weights, statistics |-> {}] :
     weights \in {ZeroLoss, [ZeroLoss EXCEPT !.mean = 2], [ZeroLoss EXCEPT !.variation = 2]}}

PlainFeature ==
  [is_source |-> TRUE, is_target |-> TRUE,
   loss_weights |-> [ZeroLoss EXCEPT !.mean = 2], statistics |-> {}]

AllPlain == [name \in {feature_names[k] : k \in 1..Len(feature_names)} |-> PlainFeature]

\* "features": the fourteen passes as source and target with a mean weight;
\* or with a masked mean weight on Environment; or with Emission not a target.
FeaturesJson ==
  {AllPlain,
   [AllPlain EXCEPT ![ENVIRONMENT] =
      [is_source |-> TRUE, is_target |-> TRUE,
       loss_weights |-> [ZeroLoss EXCEPT !.mean = 2], statistics |-> {},
       loss_weights_masked |-> [ZeroLoss EXCEPT !.mean = 2]]],
   [AllPlain EXCEPT ![EMISSION] = [PlainFeature EXCEPT !.is_target = FALSE]]}

InitTraining ==
  /\ \E features \in FeaturesJson, combined_image \in CombinedImageJson,
        combined_features \in [{CombinedNames[k] : k \in 1..Len(CombinedNames)} -> CombinedJson] :
       arguments = [features |-> features, combined_features |-> combined_features,
                    combined_image |-> combined_image]
  /\ params = NoParams
  /\ call = Call("__init__", "", NoTensor)
  /\ failure = "none"
  /\ log = <<>>
  /\ outcome = None
  /\ steps = 0
  /\ loss_result = 0
  /\ training_feature = NoTrainingFeature
  /\ attribute_reads = {}
  /\ prediction_features = <<>>
  /\ objs = <<>>
  /\ dictionary = <<>>
  /\ std_calls = <<>>
  /\ network_calls = <<>>
  /\ prediction_dictionary = EmptyDictionary
  /\ InitMain

\* main() up to the construction of the estimator.
Main ==
  /\ call.op = "__init__"
  /\ \E made \in {main(arguments)} :
       /\ failure' = made.failure
       /\ params' = IF made.failure # "none" THEN params
                    ELSE [training_features |-> made.training_features,
                          combined_training_features |-> made.combined_training_features,
                          combined_image_training_feature |-> made.combined_image_training_feature]
  /\ call' = Call("main", "", NoTensor)
  /\ UNCHANGED <<log, outcome, steps, arguments, mainVars, lossVars, modelVars>>
  /\ UNCHANGED <<prediction_features, objs, dictionary, std_calls>>

\* One call of model_fn by the estimator, after the predictions are built.
TrainingStep(mode) ==
  /\ call.op \in {"main", "model_fn"}
  /\ failure = "none"
  /\ steps < MaxSteps
  /\ \E tc \in {model_fn_loss(params, mode, NextBatch)} :
       /\ params' = [training_features |-> tc.training_features,
                     combined_training_features |-> tc.combined_training_features,
                     combined_image_training_feature |-> tc.combined_image_training_feature]
       /\ failure' = tc.failure
       /\ log' = tc.log
       /\ outcome' = [values |-> tc.values, data |-> NextBatch]
       /\ loss_result' = tc.total
  /\ steps' = steps + 1
  /\ call' = Call("model_fn", mode, NoTensor)
  /\ UNCHANGED <<training_feature, attribute_reads, arguments, mainVars, modelVars>>
  /\ UNCHANGED <<prediction_features, objs, dictionary, std_calls>>

NextTraining == Main \/ \E mode \in Modes : TrainingStep(mode)

SpecTraining == InitTraining /\ [][NextTraining]_vars

----------------------------------------------------------------------------
(* Properties of the training features of a step (SpecTraining) *)

GroupRank(group) == CASE group = "feature" -> 1 [] group = "combined" -> 2 [] OTHER -> 3

\* The initialize, read and loss events of the last model_fn call, in order.
IsObjectEvent(event) == event.op \in {"initialize", "read", "loss"}
ObjectEvents == SelectSeq(log, IsObjectEvent)

Mode == call.feature

\* C27: within one model_fn step every TrainingFeature is initialized before
\* any CombinedTrainingFeature, every CombinedTrainingFeature before the
\* CombinedImageTrainingFeature, and inside a group every initialize precedes
\* every loss(); so whenever a combined feature reads predicted / target of a
\* child, the child was initialized earlier in the same step, on its batch.
C27_ChildrenBoundBeforeCombined ==
  call.op = "model_fn" =>
    \A events \in {ObjectEvents} :
      /\ \A j, k \in 1..Len(events) :
           j < k =>
             /\ GroupRank(events[j].group) <= GroupRank(events[k].group)
             /\ (events[j].group = events[k].group /\ events[j].op = "loss") =>
                  events[k].op = "loss"
      /\ \A k \in 1..Len(events) :
           events[k].op = "read" =>
             /\ events[k].data = outcome.data
             /\ \E j \in 1..(k - 1) :
                  /\ events[j].op = "initialize"
                  /\ events[j].feature = events[k].child
      /\ Mode # "PREDICT" =>
           \A k \in 1..Len(params.training_features) :
             /\ events[k].op = "initialize"
             /\ events[k].feature = params.training_features[k].name
             /\ params.training_features[k].data = outcome.data

\* The second step: the combined image feature reads Diffuse, which was
\* initialized in this step from the three Diffuse passes of the second batch.
C27_Witness ==
  /\ call.op = "model_fn"
  /\ Mode = "TRAIN"
  /\ steps = 2
  /\ failure = "none"
  /\ outcome.data = "batch2"
  /\ \E k \in 1..Len(log) :
       /\ log[k] = TrainingEvent("read", "image", COMBINED, "Diffuse", "batch2")
       /\ \E j \in 1..(k - 1) :
            log[j] = TrainingEvent("read", "combined", "Diffuse", "Diffuse Direct", "batch2")

\* Every configured feature is a source and a target.
AllFeaturesTrained ==
  \A k \in 1..Len(feature_names) : arguments.features[feature_names[k]].is_target

\* Diffuse, Glossy, Subsurface and Transmission are all entries of "combined_features".
AllCombinedConfigured ==
  \A k \in 1..Len(CombinedNames) : arguments.combined_features[CombinedNames[k]] # None

\* C28: whenever combined_image has a positive mean or variation loss weight,
\* main() constructs the CombinedImageTrainingFeature, whatever the loss
\* weights of the combined features Diffuse, Glossy, Subsurface and Transmission.
C28_CombinedImageAlwaysConstructed ==
  (/\ call.op = "main"
   /\ AllFeaturesTrained
   /\ AllCombinedConfigured
   /\ UsedInLoss(arguments.combined_image.loss_weights)) =>
    /\ failure = "none"
    /\ params.combined_image_training_feature # None

TrainOrEval == call.op = "model_fn" /\ Mode \in {"TRAIN", "EVAL"}

\* The sum of line 916 was reached with its three operands assigned.
SumReached ==
  /\ failure = "none"
  /\ LossNames \subseteq DOMAIN outcome.values
  /\ Len(log) > 0
  /\ log[Len(log)].op = "total"

\* model_fn returned before it touched a training feature.
ReturnedAtOnce ==
  /\ failure = "none"
  /\ log = <<>>
  /\ DOMAIN outcome.values = {}
  /\ steps = 1 => \A k \in 1..Len(params.training_features) : ~params.training_features[k].bound

LastLossObject ==
  LET event == log[Len(log)]
  IN IF event.group = "feature"
       THEN params.training_features[Position(params.training_features, event.feature)]
     ELSE IF event.group = "combined"
       THEN params.combined_training_features.list[
              Position(params.combined_training_features.list, event.feature)]
     ELSE params.combined_image_training_feature

----------------------------------------------------------------------------
(* SpecMasked: masked_mean() over concrete pixels.  A float is a fraction   *)
(* [num, den]; a division by zero gives a non-finite value, den = 0.         *)

MaxPixels == 3

\* Values of difference() at a pixel.
DifferenceValues == {-1, 0, 2}

\* tf.constant(c)
Constant(c) == [num |-> c, den |-> 1]

\* tf.multiply, elementwise
Multiply(x, y) == [i \in DOMAIN x |-> x[i] * y[i]]

\* tf.divide of a tensor by a scalar, elementwise
Divide(x, y) == [i \in DOMAIN x |-> [num |-> x[i], den |-> y]]

\* tf.reduce_sum of a tensor of integers
RECURSIVE ReduceSum(_)
ReduceSum(x) == IF x = <<>> THEN 0 ELSE x[1] + ReduceSum(Tail(x))

\* tf.reduce_sum of a tensor of quotients by one scalar
RECURSIVE ReduceSumQuotients(_)
ReduceSumQuotients(x) ==
  IF Len(x) = 1 THEN x[1]
  ELSE [num |-> x[1].num + ReduceSumQuotients(Tail(x)).num, den |-> x[1].den]

\* What a call of masked_mean() returns and the divisors of the divisions it executed.
Evaluated(value, divisors) == [value |-> value, divisors |-> divisors]

\* masked_mean() without the tf.cond on mask_sum.
masked_mean_unguarded(difference, mask, mask_sum) ==
  Evaluated(ReduceSumQuotients(Divide(Multiply(difference, mask), mask_sum)), {mask_sum})

\* BaseTrainingFeature.masked_mean: tf.cond executes one of its two branches.
masked_mean(difference, mask, mask_sum) ==
  IF mask_sum > 0
    THEN Evaluated(ReduceSumQuotients(Divide(Multiply(difference, mask), mask_sum)), {mask_sum})
    ELSE Evaluated(Constant(0), {})

\* A feature after initialize(): difference() and mask over 1..n pixels, and
\* mask_sum = tf.reduce_sum(mask).
InitMasked ==
  /\ \E n \in 1..MaxPixels :
       \E difference \in [1..n -> DifferenceValues], mask \in [1..n -> {0, 1}] :
         arguments = [difference |-> difference, mask |-> mask, mask_sum |-> ReduceSum(mask)]
  /\ outcome = None
  /\ call = Call("initialize", "A", NoTensor)
  /\ failure = "none"
  /\ log = <<>>
  /\ training_feature = NoTrainingFeature
  /\ loss_result = 0
  /\ attribute_reads = {}
  /\ prediction_features = <<>>
  /\ params = NoParams
  /\ objs = <<>>
  /\ dictionary = <<>>
  /\ std_calls = <<>>
  /\ steps = 0
  /\ network_calls = <<>>
  /\ prediction_dictionary = EmptyDictionary
  /\ InitMain

MaskedMean ==
  /\ call.op = "initialize"
  /\ outcome' = masked_mean(arguments.difference, arguments.mask, arguments.mask_sum)
  /\ call' = Call("masked_mean", "A", NoTensor)
  /\ UNCHANGED <<failure, log, arguments, mainVars, featureVars, modelVars, lossVars>>

NextMasked == MaskedMean

SpecMasked == InitMasked /\ [][NextMasked]_vars

----------------------------------------------------------------------------
(* Properties of masked_mean() (SpecMasked) *)

\* The pixels the mask selects.
MaskedPixels == {i \in DOMAIN arguments.mask : arguments.mask[i] # 0}

\* The sum of difference * mask over the pixels.
RECURSIVE MaskedSum(_)
MaskedSum(pixels) ==
  IF pixels = {} THEN 0
  ELSE LET i == CHOOSE j \in pixels : TRUE
       IN arguments.difference[i] * arguments.mask[i] + MaskedSum(pixels \ {i})

\* C13: masked_mean() returns exactly the constant 0 whenever mask_sum is 0
\* and executes no division by mask_sum then; when mask_sum > 0 it returns
\* the sum of difference * mask divided by mask_sum.
C13_MaskedMeanZeroGuard ==
  call.op = "masked_mean" =>
    /\ arguments.mask_sum = 0 =>
         /\ outcome.value = Constant(0)
         /\ outcome.divisors = {}
    /\ arguments.mask_sum > 0 =>
         /\ outcome.value.den = arguments.mask_sum
         /\ outcome.value.num = MaskedSum(DOMAIN arguments.mask)
         /\ outcome.divisors = {arguments.mask_sum}

\* An all-zero mask over pixels whose difference is not zero.
C13_Witness ==
  /\ call.op = "masked_mean"
  /\ Len(arguments.mask) = 2
  /\ MaskedPixels = {}
  /\ arguments.mask_sum = 0
  /\ arguments.difference = <<2, -1>>
  /\ outcome.value = Constant(0)

----------------------------------------------------------------------------
(* source_index_tuples and rgb_color_permutation: the sampling plan of one  *)
(* epoch.  A function that draws random numbers is the set of the results    *)
(* it can return.                                                            *)

MaxExamples == 3
MaxTuples == 3
MaxArity == 2

\* random.randint(a, b): both ends included
RandInt(a, b) == a..b

\* `index in tuple`
Contains(list, index) == \E k \in 1..Len(list) : list[k] = index

\* The complete tuple sets with indices counted from 1.
CompleteTupleSets_from_one(sets, N) ==
  IF sets <= 0 THEN <<>>
  ELSE [k \in 1..(sets * N) |-> <<((k - 1) % N) + 1>>]

\* for _ in range(number_of_complete_tuple_sets):
\*   for index in range(number_of_sources_per_example): index_tuples.append([index])
RECURSIVE CompleteTupleSets(_, _)
CompleteTupleSets(sets, N) ==
  IF sets <= 0 THEN <<>>
  ELSE [index \in 1..N |-> <<index - 1>>] \o CompleteTupleSets(sets - 1, N)

\* for _ in range(number_of_remaining_tuples): index_tuples.append([randint(0, N - 1)])
RECURSIVE RemainingTuples(_, _)
RemainingTuples(count, N) ==
  IF count <= 0 THEN {<<>>}
  ELSE {<<<<index>>>> \o rest : index \in RandInt(0, N - 1), rest \in RemainingTuples(count - 1, N)}

\* The while loop that appends every index it draws.
RECURSIVE DistinctTuples_repeating(_, _, _)
DistinctTuples_repeating(tuple, N, d) ==
  IF Len(tuple) >= d THEN {tuple}
  ELSE UNION {DistinctTuples_repeating(Append(tuple, index), N, d) : index \in RandInt(0, N - 1)}

\* while len(tuple) < d: index = randint(0, N - 1); if not index in tuple: tuple.append(index)
\* A draw that is already in the tuple leaves the tuple as it is and the loop
\* draws again, so the tuples the loop can end with are those built from
\* the draws that were not in the tuple.
RECURSIVE DistinctTuples(_, _, _)
DistinctTuples(tuple, N, d) ==
  IF Len(tuple) >= d THEN {tuple}
  ELSE UNION {DistinctTuples(Append(tuple, index), N, d) :
                index \in {i \in RandInt(0, N - 1) : ~Contains(tuple, i)}}

\* for _ in range(number_of_source_index_tuples): <while loop>; index_tuples.append(tuple)
RECURSIVE SampledTuples(_, _, _)
SampledTuples(count, N, d) ==
  IF count <= 0 THEN {<<>>}
  ELSE {<<tuple>> \o rest : tuple \in DistinctTuples(<<>>, N, d), rest \in SampledTuples(count - 1, N, d)}

\* The lists index_tuples can hold when the two branches are done.
IndexTuples(N, M, d) ==
  IF d = 1
    THEN {CompleteTupleSets(M \div N, N) \o rest : rest \in RemainingTuples(M % N, N)}
    ELSE SampledTuples(M, N, d)

\* for index in tuple: if not index in required_indices: required_indices.append(index)
RECURSIVE AppendNew(_, _)
AppendNew(required, tuple) ==
  IF tuple = <<>> THEN required
  ELSE AppendNew(IF Contains(required, tuple[1]) THEN required ELSE Append(required, tuple[1]),
                 Tail(tuple))

\* for tuple in index_tuples: ...
RECURSIVE CollectIndices(_, _)
CollectIndices(required, index_tuples) ==
  IF index_tuples = <<>> THEN required
  ELSE CollectIndices(AppendNew(required, index_tuples[1]), Tail(index_tuples))

\* list.sort(), ascending: insertion of each element in turn
RECURSIVE InsertSorted(_, _)
InsertSorted(sorted, x) ==
  IF sorted = <<>> THEN <<x>>
  ELSE IF x < sorted[1] THEN <<x>> \o sorted
  ELSE <<sorted[1]>> \o InsertSorted(Tail(sorted), x)

RECURSIVE Sort(_)
Sort(list) == IF list = <<>> THEN <<>> ELSE InsertSorted(Sort(Tail(list)), list[1])

\* required_indices without the final sort.
RequiredIndices_unsorted(index_tuples) == CollectIndices(<<>>, index_tuples)

\* required_indices = []; the two loops; required_indices.sort()
RequiredIndices(index_tuples) == Sort(CollectIndices(<<>>, index_tuples))

SamplingResult(index_tuples) ==
  [failure |-> "none", index_tuples |-> index_tuples,
   required_indices |-> RequiredIndices(index_tuples)]

\* source_index_tuples(number_of_sources_per_example, number_of_source_index_tuples,
\* number_of_sources_per_target): the results it can return, or the exception it raises.
source_index_tuples(N, M, d) ==
  IF N < d
    THEN {[failure |-> "Exception", index_tuples |-> <<>>, required_indices |-> <<>>]}
    ELSE {SamplingResult(index_tuples) : index_tuples \in IndexTuples(N, M, d)}

\* SpecSampling: one call of source_index_tuples on bounded arguments.
InitSampling ==
  /\ \E N \in 0..MaxExamples, M \in 0..MaxTuples, d \in 1..MaxArity :
       arguments = [number_of_sources_per_example |-> N,
                    number_of_source_index_tuples |-> M,
                    number_of_sources_per_target |-> d]
  /\ outcome = None
  /\ call = Call("__init__", "", NoTensor)
  /\ failure = "none"
  /\ log = <<>>
  /\ training_feature = NoTrainingFeature
  /\ loss_result = 0
  /\ attribute_reads = {}
  /\ prediction_features = <<>>
  /\ params = NoParams
  /\ objs = <<>>
  /\ dictionary = <<>>
  /\ std_calls = <<>>
  /\ steps = 0
  /\ network_calls = <<>>
  /\ prediction_dictionary = EmptyDictionary
  /\ InitMain

SourceIndexTuples ==
  /\ call.op = "__init__"
  /\ \E sampled \in source_index_tuples(arguments.number_of_sources_per_example,
                                        arguments.number_of_source_index_tuples,
                                        arguments.number_of_sources_per_target) :
        /\ outcome' = sampled
        /\ failure' = sampled.failure
  /\ call' = Call("source_index_tuples", "", NoTensor)
  /\ UNCHANGED <<log, arguments, mainVars, featureVars, modelVars, lossVars>>

\* TrainingFeatureLoader.deserialize: self.source, keyed by the required indices.
deserialize(name, required_indices) ==
  [index \in {required_indices[k] : k \in 1..Len(required_indices)} |->
     SourceTensor("example", name, index, NumberOfChannels(name))]

\* add_to_sources_dictionary that files a source under its index in the example.
add_to_sources_dictionary_by_index(source, index_tuple) ==
  IF \E i \in 1..Len(index_tuple) : index_tuple[i] \notin DOMAIN source
    THEN [failure |-> "KeyError", sources |-> <<>>]
    ELSE [failure |-> "none",
          sources |-> [index \in {index_tuple[i] : i \in 1..Len(index_tuple)} |-> source[index]]]

\* TrainingFeatureLoader.add_to_sources_dictionary: sources[name, i] = self.source[index_tuple[i]];
\* a lookup of an index that was not deserialized raises KeyError.
add_to_sources_dictionary(source, index_tuple) ==
  IF \E i \in 1..Len(index_tuple) : index_tuple[i] \notin DOMAIN source
    THEN [failure |-> "KeyError", sources |-> <<>>]
    ELSE [failure |-> "none",
          sources |-> [i \in 0..(Len(index_tuple) - 1) |-> source[index_tuple[i + 1]]]]

\* PredictionFeature.initialize_sources_from_dictionary on a sources dictionary
\* keyed by position: the list self.source, or KeyError for a missing position.
read_sources(sources, number_of_sources) ==
  IF \E index \in 0..(number_of_sources - 1) : index \notin DOMAIN sources
    THEN [failure |-> "KeyError", source |-> <<>>]
    ELSE [failure |-> "none", source |-> [k \in 1..number_of_sources |-> sources[k - 1]]]

\* One example of feature_parser, from the lookup of its sources to the model's reading of them.
Example(source, index_tuple, number_of_sources) ==
  LET added == add_to_sources_dictionary(source, index_tuple)
      read == IF added.failure # "none" THEN [failure |-> added.failure, source |-> <<>>]
              ELSE read_sources(added.sources, number_of_sources)
  IN [failure |-> read.failure, sources |-> added.sources, source |-> read.source]

\* feature_parser of input_fn_tfrecords for one feature and one serialized
\* example, followed by initialize_sources_from_dictionary of model_fn on
\* every (sources, targets) pair it yields.
FeatureParser ==
  /\ call.op = "source_index_tuples"
  /\ failure = "none"
  /\ \E source \in {deserialize("A", outcome.required_indices)} :
       \E examples \in {[k \in 1..Len(outcome.index_tuples) |->
                           Example(source, outcome.index_tuples[k],
                                   arguments.number_of_sources_per_target)]} :
         /\ outcome' = [index_tuples |-> outcome.index_tuples,
                        required_indices |-> outcome.required_indices,
                        source |-> source,
                        examples |-> examples]
         /\ failure' = IF \E k \in 1..Len(examples) : examples[k].failure # "none"
                         THEN "KeyError" ELSE "none"
  /\ call' = Call("feature_parser", "", NoTensor)
  /\ UNCHANGED <<log, arguments, mainVars, featureVars, modelVars, lossVars>>

NextSampling == SourceIndexTuples \/ FeatureParser

SpecSampling == InitSampling /\ [][NextSampling]_vars

----------------------------------------------------------------------------
(* Properties of source_index_tuples (SpecSampling) *)

Sampled == call.op = "source_index_tuples"

ExamplesN == arguments.number_of_sources_per_example
TuplesM == arguments.number_of_source_index_tuples
ArityD == arguments.number_of_sources_per_target

\* How many of the returned tuples hold the index.
Occurrences(index) ==
  Cardinality({k \in 1..Len(outcome.index_tuples) : Contains(outcome.index_tuples[k], index)})

\* C16: source_index_tuples(N, M, 1) with N >= 1 returns exactly M one-element
\* tuples; the first floor(M / N) * N are 0..N-1 repeated floor(M / N) times,
\* the remaining M mod N hold one index of [0, N) each; when M is a multiple
\* k * N, every index of [0, N) occurs exactly k times.
C16_RoundRobinSingles ==
  (Sampled /\ ArityD = 1 /\ ExamplesN >= 1) =>
    /\ failure = "none"
    /\ Len(outcome.index_tuples) = TuplesM
    /\ \A k \in 1..TuplesM :
         /\ Len(outcome.index_tuples[k]) = 1
         /\ outcome.index_tuples[k][1] \in 0..(ExamplesN - 1)
         /\ k <= (TuplesM \div ExamplesN) * ExamplesN =>
              outcome.index_tuples[k][1] = (k - 1) % ExamplesN
    /\ TuplesM % ExamplesN = 0 =>
         \A index \in 0..(ExamplesN - 1) : Occurrences(index) = TuplesM \div ExamplesN

\* One complete set over two examples, then one drawn tuple.
C16_Witness ==
  /\ Sampled
  /\ ArityD = 1 /\ ExamplesN = 2 /\ TuplesM = 3
  /\ outcome.index_tuples = <<<<0>>, <<1>>, <<1>>>>

\* C17: source_index_tuples(N, M, d) with d > 1 and N >= d returns exactly M
\* tuples of exactly d pairwise distinct indices of [0, N); with N < d it
\* raises before producing any tuple.
C17_DistinctTuples ==
  (Sampled /\ ArityD > 1) =>
    /\ ExamplesN >= ArityD =>
         /\ failure = "none"
         /\ Len(outcome.index_tuples) = TuplesM
         /\ \A k \in 1..TuplesM :
              /\ Len(outcome.index_tuples[k]) = ArityD
              /\ \A a \in 1..ArityD : outcome.index_tuples[k][a] \in 0..(ExamplesN - 1)
              /\ \A a, b \in 1..ArityD :
                   a # b => outcome.index_tuples[k][a] # outcome.index_tuples[k][b]
    /\ ExamplesN < ArityD =>
         /\ failure = "Exception"
         /\ outcome.index_tuples = <<>>

\* Two tuples of two distinct indices out of three examples.
C17_Witness ==
  /\ Sampled
  /\ ArityD = 2 /\ ExamplesN = 3 /\ TuplesM = 2
  /\ outcome.index_tuples = <<<<2, 0>>, <<1, 2>>>>

\* The indices that occur in at least one returned tuple.
OccurringIndices ==
  {outcome.index_tuples[k][a] :
     k \in 1..Len(outcome.index_tuples), a \in 1..ArityD}

\* C18: the required_indices source_index_tuples returns is strictly
\* increasing, within [0, N), and holds exactly the indices that occur in at
\* least one returned tuple.
C18_RequiredIndices ==
  (Sampled /\ failure = "none") =>
    /\ \A j, k \in 1..Len(outcome.required_indices) :
         j < k => outcome.required_indices[j] < outcome.required_indices[k]
    /\ \A k \in 1..Len(outcome.required_indices) :
         outcome.required_indices[k] \in 0..(ExamplesN - 1)
    /\ {outcome.required_indices[k] : k \in 1..Len(outcome.required_indices)} = OccurringIndices

\* Tuples that meet the indices in descending order and leave one example out.
C18_Witness ==
  /\ Sampled
  /\ ExamplesN = 3
  /\ outcome.index_tuples = <<<<2, 0>>, <<0, 2>>>>
  /\ outcome.required_indices = <<0, 2>>

\* C26: for every (index_tuples, required_indices) pair source_index_tuples
\* returns, every index of every tuple is in required_indices, so
\* add_to_sources_dictionary never looks up a source deserialize did not load;
\* and every tuple has number_of_sources_per_target elements, so each sources
\* dictionary holds exactly the positions 0..number_of_sources-1 that
\* initialize_sources_from_dictionary reads, each with the source the tuple names.
C26_TuplesCoveredByRequiredIndices ==
  /\ (Sampled /\ failure = "none") =>
       \A k \in 1..Len(outcome.index_tuples) :
         /\ Len(outcome.index_tuples[k]) = ArityD
         /\ \A a \in 1..Len(outcome.index_tuples[k]) :
              Contains(outcome.required_indices, outcome.index_tuples[k][a])
  /\ call.op = "feature_parser" =>
       /\ failure = "none"
       /\ Len(outcome.examples) = Len(outcome.index_tuples)
       /\ \A k \in 1..Len(outcome.examples) :
            /\ outcome.examples[k].failure = "none"
            /\ DOMAIN outcome.examples[k].sources = 0..(ArityD - 1)
            /\ Len(outcome.examples[k].source) = ArityD
            /\ \A a \in 1..ArityD :
                 outcome.examples[k].source[a] =
                   SourceTensor("example", "A", outcome.index_tuples[k][a], NumberOfChannels("A"))

\* Two examples of two sources each out of three, one source of the file not loaded.
C26_Witness ==
  /\ call.op = "feature_parser"
  /\ ExamplesN = 3 /\ ArityD = 2
  /\ outcome.index_tuples = <<<<2, 0>>, <<0, 2>>>>
  /\ DOMAIN outcome.source = {0, 2}
  /\ DOMAIN outcome.examples[1].sources = {0, 1}
  /\ outcome.examples[1].source[1] = SourceTensor("example", "A", 2, 3)

----------------------------------------------------------------------------
(* SpecMain: the driver of main(), --validate or training with validation   *)
(* after every chunk of epochs                                               *)

MaxEpochs == 3
MaxInterval == 2

\* The loop of a run whose epoch budget never decreases is followed for this
\* many passes; a run with validation_interval >= 1 makes fewer.
MaxPasses == 2 * MaxEpochs + 1

\* rgb_color_permutation(): random.sample([0, 1, 2], 3)
rgb_color_permutation ==
  {permutation \in [1..3 -> 0..2] : \A a, b \in 1..3 : a # b => permutation[a] # permutation[b]}

\* Calls of source_index_tuples / rgb_color_permutation made up to a plan.
SamplingCalls(previous) == IF previous = None THEN 0 ELSE previous.sampling_call
PermutationCalls(previous) == IF previous = None THEN 0 ELSE previous.permutation_call

\* index_tuples, required_indices = source_index_tuples(...); rgb_permutation = None;
\* if use_rgb_permutations: rgb_permutation = rgb_color_permutation()
\* When source_index_tuples raises, rgb_color_permutation is not reached.
FreshPlans(previous, N, M, d, use_rgb_permutations) ==
  UNION {
    {[failure |-> sampled.failure,
      index_tuples |-> sampled.index_tuples,
      required_indices |-> sampled.required_indices,
      rgb_permutation |-> rgb_permutation,
      number_of_sources_per_example |-> N,
      sampling_call |-> SamplingCalls(previous) + 1,
      permutation_call |-> IF rgb_permutation # None THEN PermutationCalls(previous) + 1
                           ELSE PermutationCalls(previous)] :
       rgb_permutation \in IF use_rgb_permutations /\ sampled.failure = "none"
                             THEN rgb_color_permutation ELSE {None}} :
    sampled \in source_index_tuples(N, M, d)}

\* Sampling that keeps the plan of the previous pass once there is one.
DrawPlan_reusing(previous, N, M, d, use_rgb_permutations) ==
  IF previous # None THEN {previous} ELSE FreshPlans(previous, N, M, d, use_rgb_permutations)

\* The sampling plan drawn in front of a train() or evaluate() call.
DrawPlan(previous, N, M, d, use_rgb_permutations) ==
  FreshPlans(previous, N, M, d, use_rgb_permutations)

\* number_of_training_epochs without the clamp to the remaining budget.
ChunkSize_unclamped(remaining, validation_interval) == validation_interval

\* number_of_training_epochs with an interval below one epoch raised to one epoch.
ChunkSize_at_least_one(remaining, validation_interval) ==
  IF validation_interval < 1 THEN 1
  ELSE IF remaining < validation_interval THEN remaining ELSE validation_interval

\* number_of_training_epochs = validation_interval, or the remaining budget if that is smaller
ChunkSize(remaining, validation_interval) ==
  IF remaining < validation_interval THEN remaining ELSE validation_interval

\* `if rgb_permutation[0] != 0 and rgb_permutation[1] != 1 and rgb_permutation[2] != 2`
PermutationTest(rgb_permutation) ==
  rgb_permutation[1] # 0 /\ rgb_permutation[2] # 1 /\ rgb_permutation[3] # 2

\* data_augmentation (use_data_augmentation = True in train and evaluate):
\* the permute_rgb calls it makes on a training_feature_augmentation.
data_augmentation(rgb_permutation) ==
  [permute_rgb |-> IF rgb_permutation # None /\ PermutationTest(rgb_permutation)
                     THEN <<rgb_permutation>> ELSE <<>>]

\* A train() or evaluate() call: what main() hands to it.
Pass(kind, tfrecords_directory, drawn, tiles_height_width) ==
  [kind |-> kind,
   tfrecords_directory |-> tfrecords_directory,
   number_of_sources_per_example |-> drawn.number_of_sources_per_example,
   sampling_call |-> drawn.sampling_call,
   permutation_call |-> IF drawn.rgb_permutation # None THEN drawn.permutation_call ELSE 0,
   tiles_height_width |-> tiles_height_width]

InitMainRun ==
  /\ \E validate \in BOOLEAN, train_epochs \in -1..MaxEpochs, validation_interval \in -1..MaxInterval,
        use_rgb_permutations \in BOOLEAN, training_sources \in {1, 2}, d \in {1, 2},
        validation_tiles \in {64, 128} :
       arguments = [validate |-> validate,
                    train_epochs |-> train_epochs,
                    validation_interval |-> validation_interval,
                    use_rgb_permutations |-> use_rgb_permutations,
                    training_number_of_sources_per_example |-> training_sources,
                    validation_number_of_sources_per_example |-> 2,
                    training_tiles_height_width |-> 64,
                    validation_tiles_height_width |-> validation_tiles,
                    number_of_source_index_tuples |-> 2,
                    number_of_sources_per_target |-> d]
  /\ pc = "start"
  /\ remaining_number_of_epochs = 0
  /\ number_of_training_epochs = 0
  /\ epoch = 0
  /\ plan = None
  /\ passes = <<>>
  /\ outcome = None
  /\ call = Call("main", "", NoTensor)
  /\ failure = "none"
  /\ log = <<>>
  /\ training_feature = NoTrainingFeature
  /\ loss_result = 0
  /\ attribute_reads = {}
  /\ prediction_features = <<>>
  /\ params = NoParams
  /\ objs = <<>>
  /\ dictionary = <<>>
  /\ std_calls = <<>>
  /\ steps = 0
  /\ network_calls = <<>>
  /\ prediction_dictionary = EmptyDictionary

restVars == <<log, arguments, featureVars, modelVars, lossVars>>

\* if parsed_arguments.validate: ... else: remaining_number_of_epochs = train_epochs
Start ==
  /\ pc = "start"
  /\ IF arguments.validate
       THEN pc' = "validation" /\ UNCHANGED remaining_number_of_epochs
       ELSE pc' = "while" /\ remaining_number_of_epochs' = arguments.train_epochs
  /\ UNCHANGED <<number_of_training_epochs, epoch, plan, passes, outcome, call, failure, restVars>>

\* while remaining_number_of_epochs > 0: number_of_training_epochs = ...
BeginChunk ==
  /\ pc = "while"
  /\ IF remaining_number_of_epochs > 0
       THEN /\ Len(passes) < MaxPasses
            /\ number_of_training_epochs' =
                 ChunkSize(remaining_number_of_epochs, arguments.validation_interval)
            /\ epoch' = 0
            /\ pc' = "for"
       ELSE /\ pc' = "done"
            /\ UNCHANGED <<number_of_training_epochs, epoch>>
  /\ UNCHANGED <<remaining_number_of_epochs, plan, passes, outcome, call, failure, restVars>>

\* The sampling in front of a pass, with the number of sources of a split.
Sample(N, next) ==
  \E drawn \in DrawPlan(plan, N, arguments.number_of_source_index_tuples,
                         arguments.number_of_sources_per_target, arguments.use_rgb_permutations) :
    /\ plan' = drawn
    /\ failure' = drawn.failure
    /\ pc' = IF drawn.failure = "none" THEN next ELSE "failed"
    /\ call' = Call("source_index_tuples", "", NoTensor)

\* for _ in range(number_of_training_epochs): the sampling of one epoch
SampleTraining ==
  /\ pc = "for"
  /\ epoch < number_of_training_epochs
  /\ Sample(arguments.training_number_of_sources_per_example, "train")
  /\ UNCHANGED <<remaining_number_of_epochs, number_of_training_epochs, epoch, passes, outcome, restVars>>

\* train(training_tfrecords_directory, ..., epochs_to_train = 1, ..., training_tiles_height_width, ...)
Train ==
  /\ pc = "train"
  /\ passes' = Append(passes, Pass("train", "training", plan, arguments.training_tiles_height_width))
  /\ outcome' = data_augmentation(plan.rgb_permutation)
  /\ epoch' = epoch + 1
  /\ pc' = "for"
  /\ call' = Call("train", "", NoTensor)
  /\ UNCHANGED <<remaining_number_of_epochs, number_of_training_epochs, plan, failure, restVars>>

\* The sampling in front of evaluate(), after the for loop or in --validate mode.
SampleValidation ==
  /\ \/ pc = "for" /\ epoch >= number_of_training_epochs
     \/ pc = "validation"
  /\ Sample(arguments.validation_number_of_sources_per_example, "evaluate")
  /\ UNCHANGED <<remaining_number_of_epochs, number_of_training_epochs, epoch, passes, outcome, restVars>>

\* evaluate(validation_tfrecords_directory, ..., training_tiles_height_width, ...)
Evaluate ==
  /\ pc = "evaluate"
  /\ passes' = Append(passes, Pass("evaluate", "validation", plan, arguments.training_tiles_height_width))
  /\ outcome' = data_augmentation(plan.rgb_permutation)
  /\ pc' = IF arguments.validate THEN "done" ELSE "end_chunk"
  /\ call' = Call("evaluate", "", NoTensor)
  /\ UNCHANGED <<remaining_number_of_epochs, number_of_training_epochs, epoch, plan, failure, restVars>>

\* remaining_number_of_epochs = remaining_number_of_epochs - number_of_training_epochs
EndChunk ==
  /\ pc = "end_chunk"
  /\ remaining_number_of_epochs' = remaining_number_of_epochs - number_of_training_epochs
  /\ pc' = "while"
  /\ UNCHANGED <<number_of_training_epochs, epoch, plan, passes, outcome, call, failure, restVars>>

NextMain ==
  \/ Start
  \/ BeginChunk
  \/ SampleTraining
  \/ Train
  \/ SampleValidation
  \/ Evaluate
  \/ EndChunk

SpecMain == InitMainRun /\ [][NextMain]_vars

\* The runs without RGB permutations.
InitMainFair == InitMainRun /\ ~arguments.use_rgb_permutations

\* main() is one sequential thread: it takes its next step whenever it has one.
SpecMainFair == InitMainFair /\ [][NextMain]_vars /\ WF_vars(NextMain)

----------------------------------------------------------------------------
(* Properties of the driver (SpecMain) *)

Kinds == [k \in 1..Len(passes) |-> passes[k].kind]

TrainingEpochs == Cardinality({k \in 1..Len(passes) : passes[k].kind = "train"})

ValidationPasses == Cardinality({k \in 1..Len(passes) : passes[k].kind = "evaluate"})

\* Training mode with train_epochs >= 0 and validation_interval >= 1.
TrainingMode ==
  /\ ~arguments.validate
  /\ arguments.train_epochs >= 0
  /\ arguments.validation_interval >= 1

\* Both splits hold enough sources per example for the tuples asked for, so
\* that source_index_tuples does not raise.
SamplingPossible ==
  /\ arguments.training_number_of_sources_per_example >= arguments.number_of_sources_per_target
  /\ arguments.validation_number_of_sources_per_example >= arguments.number_of_sources_per_target

\* ceil(a / b) for b >= 1
Ceiling(a, b) == (a + b - 1) \div b

\* What holds of every state of a run in training mode: never more training
\* epochs than the budget, never two validation passes in a row, no failure
\* unless the sampling raises; and when the loop has ended: exactly
\* train_epochs training epochs, in chunks of validation_interval (the last
\* one possibly shorter), each chunk followed by exactly one validation pass.
ChunkedTraining ==
  TrainingMode =>
    /\ TrainingEpochs <= arguments.train_epochs
    /\ \A k \in 1..(Len(passes) - 1) : ~(Kinds[k] = "evaluate" /\ Kinds[k + 1] = "evaluate")
    /\ SamplingPossible => pc # "failed"
    /\ pc = "done" =>
         /\ TrainingEpochs = arguments.train_epochs
         /\ ValidationPasses = Ceiling(arguments.train_epochs, arguments.validation_interval)
         /\ \A k \in 1..Len(passes) :
              Kinds[k] = "evaluate" <=>
                (k % (arguments.validation_interval + 1) = 0 \/ k = Len(passes))

\* C14: in training mode with train_epochs >= 0 and validation_interval >= 1
\* the driver loop terminates (by an exception only if the sampling raises),
\* after exactly train_epochs training epochs in chunks of validation_interval
\* epochs, the last chunk possibly shorter, with exactly one validation pass
\* after each chunk: ceil(train_epochs / validation_interval) passes, never
\* two of them without a training epoch in between.
C14_ChunkedTrainingTerminates ==
  /\ []ChunkedTraining
  /\ (TrainingMode ~> (pc \in {"done", "failed"}))

\* Three epochs in chunks of two: two epochs, a validation, one epoch, a validation.
C14_Witness ==
  /\ pc = "done"
  /\ ~arguments.validate
  /\ arguments.train_epochs = 3
  /\ arguments.validation_interval = 2
  /\ Kinds = <<"train", "train", "evaluate", "train", "evaluate">>

\* C15: every training epoch and every validation pass is preceded by its
\* own call of source_index_tuples and, when use_rgb_permutations is set, its
\* own rgb_color_permutation draw: the k-th pass runs on the result of the
\* k-th call, so no plan serves two passes; without use_rgb_permutations no
\* pass gets a permutation.
C15_FreshPlanPerPass ==
  /\ \A k \in 1..Len(passes) :
       /\ passes[k].sampling_call = k
       /\ passes[k].permutation_call = IF arguments.use_rgb_permutations THEN k ELSE 0
  /\ pc \in {"train", "evaluate"} =>
       /\ plan.sampling_call = Len(passes) + 1
       /\ plan.rgb_permutation # None <=> arguments.use_rgb_permutations
       /\ plan.rgb_permutation # None => plan.permutation_call = Len(passes) + 1

\* After two epochs and a validation pass, the third epoch holds the fourth plan.
C15_Witness ==
  /\ pc = "train"
  /\ arguments.use_rgb_permutations
  /\ Kinds = <<"train", "train", "evaluate">>
  /\ plan.sampling_call = 4
  /\ plan.permutation_call = 4

\* C19: when an RGB permutation is drawn for an epoch, data augmentation
\* applies it for every ordering except the identity [0, 1, 2] and skips it
\* only when the drawn permutation is the identity.
C19_PermutationSkippedOnlyForIdentity ==
  (call.op \in {"train", "evaluate"} /\ plan.rgb_permutation # None) =>
    (outcome.permute_rgb = <<plan.rgb_permutation>> <=> plan.rgb_permutation # <<0, 1, 2>>)

\* Training mode with a positive epoch budget and no positive validation interval.
NoValidationInterval ==
  /\ ~arguments.validate
  /\ arguments.train_epochs > 0
  /\ arguments.validation_interval <= 0

\* Chunks completed so far: a chunk ends with its validation pass and the update of the budget.
CompletedChunks == IF pc = "end_chunk" THEN ValidationPasses - 1 ELSE ValidationPasses

\* What holds of every state of such a run: the loop has not ended, no
\* training epoch has run, and the budget is the initial one plus -interval
\* for every completed chunk, so never below train_epochs.
EndlessValidation ==
  NoValidationInterval =>
    /\ pc # "done"
    /\ TrainingEpochs = 0
    /\ \A k \in 1..Len(passes) : Kinds[k] = "evaluate"
    /\ pc # "start" =>
         /\ remaining_number_of_epochs =
              arguments.train_epochs - arguments.validation_interval * CompletedChunks
         /\ remaining_number_of_epochs >= arguments.train_epochs

\* The budget of such a run does not decrease in any step.
BudgetNeverDecreases ==
  (NoValidationInterval /\ pc # "start") => remaining_number_of_epochs' >= remaining_number_of_epochs

\* C24: in training mode with train_epochs > 0 and validation_interval <= 0
\* the driver loop never terminates: it runs no training epoch, the remaining
\* epoch budget never decreases, and validation passes go on without end (up
\* to MaxPasses, where the run is no longer followed) unless the sampling raises.
C24_NonPositiveIntervalNeverTerminates ==
  /\ []EndlessValidation
  /\ [][BudgetNeverDecreases]_vars
  /\ (NoValidationInterval ~> (ValidationPasses = MaxPasses \/ pc = "failed"))

\* Interval -1: seven validation passes, no epoch trained, the budget grown from 1 to 8.
C24_Witness ==
  /\ NoValidationInterval
  /\ arguments.train_epochs = 1
  /\ arguments.validation_interval = -1
  /\ pc = "while"
  /\ ValidationPasses = MaxPasses
  /\ TrainingEpochs = 0
  /\ remaining_number_of_epochs = 1 + MaxPasses

\* C25: every validation pass, in --validate mode and after each training
\* chunk, samples its index tuples with the validation split's
\* number_of_sources_per_example and deserializes tiles with the validation
\* split's tiles_height_width, never with a value of the training statistics.
C25_ValidationUsesValidationStatistics ==
  \A k \in 1..Len(passes) :
    passes[k].kind = "evaluate" =>
      /\ passes[k].tfrecords_directory = "validation"
      /\ passes[k].number_of_sources_per_example =
           arguments.validation_number_of_sources_per_example
      /\ passes[k].tiles_height_width = arguments.validation_tiles_height_width

----------------------------------------------------------------------------
(* SpecStandardization: standardize and invert_standardize of one           *)
(* FeatureStandardization applied in turn to one tensor                      *)

MaxCalls == 2

\* The FeatureStandardization objects: log1p on / off, mean = 0 / # 0, variance = 1 / # 1.
Standardizations == StandardizationConfigs \ {NoStandardization}

InitStandardization ==
  /\ \E fs \in Standardizations, dict \in Dictionaries, name \in {"A", "B"} :
       /\ arguments = [feature_standardization |-> fs,
                       feature |-> SourceTensor(dict, name, 0, NumberOfChannels(name))]
       /\ outcome = SourceTensor(dict, name, 0, NumberOfChannels(name))
  /\ log = <<>>
  /\ call = Call("__init__", "", NoTensor)
  /\ failure = "none"
  /\ training_feature = NoTrainingFeature
  /\ loss_result = 0
  /\ attribute_reads = {}
  /\ prediction_features = <<>>
  /\ params = NoParams
  /\ objs = <<>>
  /\ dictionary = <<>>
  /\ std_calls = <<>>
  /\ steps = 0
  /\ network_calls = <<>>
  /\ prediction_dictionary = EmptyDictionary
  /\ InitMain

\* feature = feature_standardization.standardize(feature, index)
StandardizeTensor ==
  /\ Len(log) < MaxCalls
  /\ outcome' = standardize(arguments.feature_standardization, outcome)
  /\ log' = Append(log, "standardize")
  /\ call' = Call("standardize", "", outcome)
  /\ UNCHANGED <<failure, arguments, mainVars, featureVars, modelVars, lossVars>>

\* feature = feature_standardization.invert_standardize(feature)
InvertStandardizeTensor ==
  /\ Len(log) < MaxCalls
  /\ outcome' = invert_standardize(arguments.feature_standardization, outcome)
  /\ log' = Append(log, "invert_standardize")
  /\ call' = Call("invert_standardize", "", outcome)
  /\ UNCHANGED <<failure, arguments, mainVars, featureVars, modelVars, lossVars>>

NextStandardization ==
  \/ StandardizeTensor
  \/ InvertStandardizeTensor

SpecStandardization == InitStandardization /\ [][NextStandardization]_vars

----------------------------------------------------------------------------
(* Properties of FeatureStandardization (SpecStandardization) *)

\* The steps standardize is to apply, in order: signed log1p if use_log1p,
\* subtract mean only if mean # 0, divide by sqrt(variance) only if variance # 1.
EnabledSteps ==
  (IF arguments.feature_standardization.use_log1p THEN <<"signed_log1p">> ELSE <<>>)
  \o (IF arguments.feature_standardization.mean # 0 THEN <<"subtract_mean">> ELSE <<>>)
  \o (IF arguments.feature_standardization.variance # 1 THEN <<"divide_sqrt_variance">> ELSE <<>>)

\* The inverse operations of the enabled steps, in the reverse order.
ReversedInverses ==
  [k \in 1..Len(EnabledSteps) |->
     CASE EnabledSteps[Len(EnabledSteps) + 1 - k] = "signed_log1p" -> "signed_expm1"
       [] EnabledSteps[Len(EnabledSteps) + 1 - k] = "subtract_mean" -> "add_mean"
       [] EnabledSteps[Len(EnabledSteps) + 1 - k] = "divide_sqrt_variance" -> "multiply_sqrt_variance"]

\* C20: standardize applies exactly the enabled steps in the order signed
\* log1p, subtract mean, divide by sqrt(variance); invert_standardize
\* applies the inverse operations of exactly the same steps in the reverse
\* order; a disabled step adds no operation on either side; and
\* invert_standardize(standardize(x)) = x for all 8 combinations of log1p
\* on / off, mean = 0 / # 0, variance = 1 / # 1.
C20_InvertUndoesStandardize ==
  /\ log = <<"standardize">> =>
       /\ outcome.term = arguments.feature.term \o EnabledSteps
       /\ outcome.channels = arguments.feature.channels
  /\ log = <<"invert_standardize">> =>
       /\ outcome.term = arguments.feature.term \o ReversedInverses
       /\ outcome.channels = arguments.feature.channels
  /\ log = <<"standardize", "invert_standardize">> => outcome = arguments.feature

\* The round trip through all three steps.
C20_Witness ==
  /\ log = <<"standardize", "invert_standardize">>
  /\ arguments.feature_standardization = FeatureStandardization(TRUE, 2, 4)
  /\ call.arg.term = arguments.feature.term \o <<"signed_log1p", "subtract_mean", "divide_sqrt_variance">>
  /\ outcome = arguments.feature

====
